---- MODULE Spec2Model ----
(***************************************************************************)
(* A model of voxaudio: the reference-counted PortAudio guard               *)
(* (portaudio.go), the two recorders (loopback.go, output_capture.go), and  *)
(* the duplex Session (realtime.go).                                        *)
(*                                                                          *)
(* The specifications of the module:                                       *)
(*   GuardSpec  concurrent callers of SafePortAudioInit/Terminate, with the *)
(*              mutex and every statement under it as a step of its own;    *)
(*   RecSpec    the recorders, NewSession and blackHoleTrack as users of    *)
(*              the guard (each mutex-protected handler is one action);     *)
(*   SessSpec   one Session: Start, Stop, the send goroutine, the receive   *)
(*              loop with its stop-watcher, and the data channel;           *)
(*   SessLive   SessSpec with every goroutine scheduled fairly;             *)
(*   StopSpec   Session.Stop alone, called by two goroutines;               *)
(*   PipeSpec   one recorder's Samples channel: the capture callback, the   *)
(*              callers of Stop and a goroutine ranging over Samples;       *)
(*   PipeLive   PipeSpec with every goroutine scheduled fairly;             *)
(*   TrackSpec  localTrack's receive loop with its audio file;              *)
(*   WavSpec    writeWavHeader and updateWavHeader on a file and a data     *)
(*              size;                                                       *)
(*   SelectSpec the device selection of LoopbackRecorder.Start on a catalog.*)
(*   CaptureSelSpec  the device selection of either recorder's Start on a   *)
(*              catalog with a host default;                                *)
(*   LoopsSpec  the send direction or the receive direction of a Session,   *)
(*              with several batches and frames.                            *)
(*   RestartSpec  RecSpec with the capture callbacks of the open streams.   *)
(*   CallbackSpec  what a capture callback makes of the buffers delivered.  *)
(*   SoundSpec  the non-silence flag the receive loop computes per frame.   *)
(*   BufferSpec  an AudioBuffer with concurrent readers and writers;        *)
(*   BufferLive  BufferSpec with every reader scheduled fairly.             *)
(* Each specification leaves the variables of the others at their idle      *)
(* values; the Session's steps call into its recorder and the guard.        *)
(***************************************************************************)
EXTENDS Integers, Sequences, FiniteSets, TLC

VARIABLES
    \* ---- portaudio.go: the guard ----
    paInitMutex,    \* holder of paInitMutex, or NoCaller
    paInitCount,    \* paInitCount
    paUp,           \* is the PortAudio library physically initialized
    gpc,            \* per caller: position inside SafePortAudioInit/Terminate
    gloc,           \* per caller: locals of the call in progress
    ghist           \* history: what has been executed so far

guardVars == <<paInitMutex, paInitCount, paUp, gpc, gloc, ghist>>

VARIABLES
    \* ---- loopback.go, output_capture.go, realtime.go: users of the guard ----
    rec,            \* the recorder objects, by slot
    streams,        \* every portaudio stream opened so far, in order of opening
    bh,             \* the blackHoleTrack goroutine
    rhist           \* history: operations made, constructor failures

recVars == <<rec, streams, bh, rhist>>

VARIABLES
    \* ---- realtime.go: one Session ----
    stopCh,         \* the field s.stopCh: "ch" (the channel made by NewSession) or "nil"
    stopClosed,     \* has that channel been closed
    doneClosed,     \* has the receive loop's local done channel been closed
    panicked,       \* a goroutine panicked: the process is gone
    dcState,        \* s.dc.ReadyState(): "connecting", "open" or "closed"
    onOpen,         \* the handler registered with s.dc.OnOpen: "log" or "init"
    pcClosed,       \* has s.pc.Close() run
    sent,           \* the messages SendText put on the data channel, in order
    Samples,        \* the batches queued in s.recorder.Samples
    at,             \* per goroutine: where it is
    loc,            \* locals of the goroutines
    shist           \* history: calls made, batches captured

sessVars == <<stopCh, stopClosed, doneClosed, panicked, dcState, onOpen, pcClosed,
              sent, Samples, at, loc, shist>>

VARIABLES
    \* ---- loopback.go, output_capture.go: one recorder and its Samples pipe ----
    pk,             \* which recorder: "loopback" or "output"
    pmu,            \* holder of r.mu, or NoCaller
    pstream,        \* r.stream: "none", "running" or "closed"
    pq,             \* the batches queued in r.Samples
    chClosed,       \* has r.Samples been closed
    pisClosed,      \* r.isClosed
    pcb,            \* the capture callback: "idle", or "offer" while it runs
    pat,            \* per caller of Stop: where it is
    pcons,          \* the consumer: "ranging", "done", or "absent"
    phist           \* history: batches offered, queued, received; closes; panic

pipeVars == <<pk, pmu, pstream, pq, chClosed, pisClosed, pcb, pat, pcons, phist>>

VARIABLES
    \* ---- realtime.go: localTrack and its audio file ----
    tpc,            \* where localTrack is
    audioFile,      \* the file: was it created, its bytes, the write offset
    totalAudioBytes,\* totalAudioBytes
    audioBuffer,    \* the bytes given to the player: audioBuffer
    tenv,           \* done closed, transport closed, the frame in hand
    thist           \* history: packets read, calls of updateWavHeader, writes

trackVars == <<tpc, audioFile, totalAudioBytes, audioBuffer, tenv, thist>>

VARIABLES
    wav,            \* updateWavHeader applied to a header and a data size
    sel             \* LoopbackRecorder.Start's device selection on a catalog

VARIABLES
    cbk,            \* a capture callback: its buffers, and the batches it made
    frm,            \* a decoded frame and its non-silence flag
    ab              \* an AudioBuffer with its readers and writers

moreVars == <<cbk, frm, ab>>

extVars == <<pipeVars, trackVars, wav, sel, moreVars>>

vars == <<guardVars, recVars, sessVars, extVars>>

(***************************************************************************)
(* Bounds                                                                   *)
(***************************************************************************)
NCallers == 2       \* concurrent callers of the guard
MaxCalls == 2       \* calls each caller makes
NRecs == 2          \* recorder objects that can be constructed
MaxStreams == 2     \* streams that can be opened in one run
MaxOps == 6         \* recorder operations in one run
MaxStops == 2       \* Session.Stop calls the application goroutine makes in a row
MaxBatches == 1     \* batches the capture callback delivers in one run
MaxPackets == 1     \* RTP packets the remote track delivers in one run
SamplesCap == 1     \* capacity of recorder.Samples (1024 in the code)
NStoppers == 2      \* concurrent callers of a recorder's Stop
PipeCap == 2        \* capacity of r.Samples in the pipe model (1024 in the code)
MaxOffers == 4      \* batches the capture callback is invoked with in one run
MaxData == 2        \* audio bytes in the file given to updateWavHeader
MaxFrames == 2      \* packets localTrack reads in one run
MaxDevices == 3     \* devices in the catalog
MaxOutDevices == 2  \* devices in the catalog with a host default
MaxSendBatches == 3 \* batches the capture callback delivers to the send loop alone
SendCap == 2        \* capacity of recorder.Samples for the send loop alone
BufferSize == 2     \* length of OutputCaptureRecorder's buffer (1024 * channelCount)
MaxInputLen == 3    \* samples in a buffer the driver delivers
MaxDeliveries == 2  \* buffers the driver delivers to one callback
FrameLen == 3       \* samples a decoded frame can hold (frameSize in the code)
MaxDecoded == 2     \* frames decoded in one run of the flag computation
NReaders == 2       \* goroutines that call AudioBuffer.Read
MaxReads == 2       \* calls of Read each of them makes
MaxWrites == 2      \* calls of AudioBuffer.Write in one run
MaxWriteLen == 2    \* bytes in one Write, and in the slice given to Read

Callers == 1..NCallers
NoCaller == 0

(***************************************************************************)
(* portaudio.go                                                             *)
(***************************************************************************)

\* line 20: the physical initialization is attempted only at count 0
NeedsInitializeAlways(c) == TRUE
NeedsInitialize(c) == c = 0

\* line 25: paInitCount++
CountAfterInit(c) == c + 1

\* line 34: paInitCount--
CountAfterDec(c) == c - 1

\* line 35: if paInitCount <= 0 { portaudio.Terminate() ... }
TearsDown(c) == c <= 0

\* line 37: paInitCount = 0 inside the branch of line 35
CountUnclamped(c) == c
CountAfterCheck(c) == IF TearsDown(c) THEN 0 ELSE c

\* what the guard's own steps leave alone
outsideGuard == <<recVars, sessVars, extVars>>

GuardIdle ==
    /\ paInitMutex = NoCaller
    /\ paInitCount = 0
    /\ paUp = FALSE
    /\ gpc = [t \in Callers |-> "idle"]
    /\ gloc = [t \in Callers |-> [calls |-> 0, pre |-> 0, preUp |-> FALSE, err |-> FALSE, tore |-> FALSE]]
    /\ ghist = [nInitialize |-> 0, nTerminate |-> 0,
                initStarted |-> 0, initOk |-> 0, initFail |-> 0,
                termStarted |-> 0, termDone |-> 0,
                ordered |-> TRUE]

RecIdle ==
    /\ rec = [i \in 1..NRecs |-> [kind |-> "none", stream |-> 0, isClosed |-> FALSE,
                                  terms |-> 0, chCloses |-> 0]]
    /\ streams = <<>>
    /\ bh = [pc |-> "idle", stream |-> 0]
    /\ rhist = [ops |-> 0, ctorFails |-> 0, delivered |-> FALSE, sendOnClosed |-> FALSE]

Goroutines == {"app", "app2", "snd", "rcv", "wat", "hnd"}

SessIdle ==
    /\ stopCh = "ch"
    /\ stopClosed = FALSE
    /\ doneClosed = FALSE
    /\ panicked = FALSE
    /\ dcState = "connecting"
    /\ onOpen = "log"
    /\ pcClosed = FALSE
    /\ sent = <<>>
    /\ Samples = <<>>
    /\ at = [g \in Goroutines |-> "none"]
    /\ loc = [sref |-> "ch", wref |-> "ch", cur |-> 0, late |-> FALSE]
    /\ shist = [appStops |-> 0, overlap |-> FALSE, stopCloses |-> 0,
                captured |-> 0, arrived |-> 0, stopAtRun |-> FALSE,
                lateSent |-> FALSE, conc |-> FALSE,
                skipped |-> {}, taken |-> {}, startErr |-> FALSE,
                lateStart |-> FALSE, enqueued |-> <<>>, sendFailed |-> FALSE]

Stoppers1 == 1..NStoppers

PipeIdle ==
    /\ pk = "loopback"
    /\ pmu = NoCaller
    /\ pstream = "none"
    /\ pq = <<>>
    /\ chClosed = FALSE
    /\ pisClosed = FALSE
    /\ pcb = "idle"
    /\ pat = [t \in Stoppers1 |-> "idle"]
    /\ pcons = "absent"
    /\ phist = [offered |-> <<>>, accepted |-> <<>>, received |-> <<>>,
                pending |-> <<>>, closes |-> 0, panicked |-> FALSE, started |-> FALSE]

TrackIdle ==
    /\ tpc = "idle"
    /\ audioFile = [ok |-> FALSE, bytes |-> <<>>, pos |-> 0]
    /\ totalAudioBytes = 0
    /\ audioBuffer = <<>>
    /\ tenv = [done |-> FALSE, eof |-> FALSE, frame |-> <<>>]
    /\ thist = [packets |-> 0, nFinal |-> 0, finalArg |-> 0,
                lateWrites |-> 0, okBytes |-> 0, via |-> "none",
                lastRead |-> "none", decoded |-> <<>>, puts |-> <<>>,
                hdrLen |-> 0]

WavIdle == wav = [pc |-> "idle"]

SelIdle == sel = [pc |-> "idle"]

CbkIdle == cbk = [pc |-> "idle"]

FrmIdle == frm = [pc |-> "idle"]

AbIdle == ab = [pc |-> "idle"]

MoreIdle == CbkIdle /\ FrmIdle /\ AbIdle

ExtIdle == PipeIdle /\ TrackIdle /\ WavIdle /\ SelIdle /\ MoreIdle

GuardInit == GuardIdle /\ RecIdle /\ SessIdle /\ ExtIdle

\* a caller enters SafePortAudioInit
CallInit(t) ==
    /\ UNCHANGED outsideGuard
    /\ gpc[t] = "idle"
    /\ gloc[t].calls < MaxCalls
    /\ gpc' = [gpc EXCEPT ![t] = "i_lock"]
    /\ gloc' = [gloc EXCEPT ![t] = [calls |-> @.calls + 1, pre |-> 0, preUp |-> FALSE,
                                    err |-> FALSE, tore |-> FALSE]]
    /\ ghist' = [ghist EXCEPT !.initStarted = @ + 1,
                              !.ordered = @ /\ ghist.termStarted = 0]
    /\ UNCHANGED <<paInitMutex, paInitCount, paUp>>

\* line 17: paInitMutex.Lock()
InitLock(t) ==
    /\ UNCHANGED outsideGuard
    /\ gpc[t] = "i_lock"
    /\ paInitMutex = NoCaller
    /\ paInitMutex' = t
    /\ gpc' = [gpc EXCEPT ![t] = "i_check"]
    /\ gloc' = [gloc EXCEPT ![t].pre = paInitCount, ![t].preUp = paUp]
    /\ UNCHANGED <<paInitCount, paUp, ghist>>

\* lines 20-24: at count 0 portaudio.Initialize() runs and may fail
InitCheck(t) ==
    /\ UNCHANGED outsideGuard
    /\ gpc[t] = "i_check"
    /\ IF NeedsInitialize(paInitCount)
       THEN \E ok \in BOOLEAN :
              /\ ghist' = [ghist EXCEPT !.nInitialize = @ + 1]
              /\ IF ok
                 THEN /\ paUp' = TRUE
                      /\ gpc' = [gpc EXCEPT ![t] = "i_inc"]
                      /\ gloc' = gloc
                 ELSE /\ paUp' = paUp
                      /\ gpc' = [gpc EXCEPT ![t] = "i_unlock"]
                      /\ gloc' = [gloc EXCEPT ![t].err = TRUE]
       ELSE /\ gpc' = [gpc EXCEPT ![t] = "i_inc"]
            /\ UNCHANGED <<paUp, gloc, ghist>>
    /\ UNCHANGED <<paInitMutex, paInitCount>>

\* line 25: paInitCount++
InitInc(t) ==
    /\ UNCHANGED outsideGuard
    /\ gpc[t] = "i_inc"
    /\ paInitCount' = CountAfterInit(paInitCount)
    /\ gpc' = [gpc EXCEPT ![t] = "i_unlock"]
    /\ UNCHANGED <<paInitMutex, paUp, gloc, ghist>>

\* line 18: the deferred paInitMutex.Unlock(), and the return
InitUnlock(t) ==
    /\ UNCHANGED outsideGuard
    /\ gpc[t] = "i_unlock"
    /\ paInitMutex' = NoCaller
    /\ gpc' = [gpc EXCEPT ![t] = "idle"]
    /\ ghist' = IF gloc[t].err
                THEN [ghist EXCEPT !.initFail = @ + 1]
                ELSE [ghist EXCEPT !.initOk = @ + 1]
    /\ UNCHANGED <<paInitCount, paUp, gloc>>

\* a caller enters SafePortAudioTerminate
CallTerminate(t) ==
    /\ UNCHANGED outsideGuard
    /\ gpc[t] = "idle"
    /\ gloc[t].calls < MaxCalls
    /\ gpc' = [gpc EXCEPT ![t] = "t_lock"]
    /\ gloc' = [gloc EXCEPT ![t] = [calls |-> @.calls + 1, pre |-> 0, preUp |-> FALSE,
                                    err |-> FALSE, tore |-> FALSE]]
    /\ ghist' = [ghist EXCEPT !.termStarted = @ + 1,
                              !.ordered = @ /\ ghist.initStarted
                                                 = ghist.initOk + ghist.initFail]
    /\ UNCHANGED <<paInitMutex, paInitCount, paUp>>

\* line 31: paInitMutex.Lock()
TermLock(t) ==
    /\ UNCHANGED outsideGuard
    /\ gpc[t] = "t_lock"
    /\ paInitMutex = NoCaller
    /\ paInitMutex' = t
    /\ gpc' = [gpc EXCEPT ![t] = "t_dec"]
    /\ gloc' = [gloc EXCEPT ![t].pre = paInitCount, ![t].preUp = paUp]
    /\ UNCHANGED <<paInitCount, paUp, ghist>>

\* line 34: paInitCount--
TermDec(t) ==
    /\ UNCHANGED outsideGuard
    /\ gpc[t] = "t_dec"
    /\ paInitCount' = CountAfterDec(paInitCount)
    /\ gpc' = [gpc EXCEPT ![t] = "t_check"]
    /\ UNCHANGED <<paInitMutex, paUp, gloc, ghist>>

\* lines 35-38: portaudio.Terminate() and the clamp
TermCheck(t) ==
    /\ UNCHANGED outsideGuard
    /\ gpc[t] = "t_check"
    /\ IF TearsDown(paInitCount)
       THEN /\ paUp' = FALSE
            /\ ghist' = [ghist EXCEPT !.nTerminate = @ + 1]
            /\ gloc' = [gloc EXCEPT ![t].tore = TRUE]
       ELSE UNCHANGED <<paUp, ghist, gloc>>
    /\ paInitCount' = CountAfterCheck(paInitCount)
    /\ gpc' = [gpc EXCEPT ![t] = "t_unlock"]
    /\ UNCHANGED paInitMutex

\* line 32: the deferred paInitMutex.Unlock(), and the return
TermUnlock(t) ==
    /\ UNCHANGED outsideGuard
    /\ gpc[t] = "t_unlock"
    /\ paInitMutex' = NoCaller
    /\ gpc' = [gpc EXCEPT ![t] = "idle"]
    /\ ghist' = [ghist EXCEPT !.termDone = @ + 1]
    /\ UNCHANGED <<paInitCount, paUp, gloc>>

GuardNext ==
    \E t \in Callers :
        \/ CallInit(t)
        \/ InitLock(t)
        \/ InitCheck(t)
        \/ InitInc(t)
        \/ InitUnlock(t)
        \/ CallTerminate(t)
        \/ TermLock(t)
        \/ TermDec(t)
        \/ TermCheck(t)
        \/ TermUnlock(t)

GuardSpec == GuardInit /\ [][GuardNext]_vars

(***************************************************************************)
(* The guard as its callers see it: a call of SafePortAudioInit or          *)
(* SafePortAudioTerminate runs under paInitMutex from its first statement   *)
(* to its last, so a caller that never reads paInitCount itself sees it as  *)
(* one step.                                                                *)
(***************************************************************************)

\* portaudio.go 16-27, with ok the outcome of portaudio.Initialize()
InitCountsFailedAttempt(c, up, ok) ==
    [count |-> CountAfterInit(c), up |-> up \/ (NeedsInitialize(c) /\ ok),
     err |-> NeedsInitialize(c) /\ ~ok,
     phys |-> IF NeedsInitialize(c) THEN 1 ELSE 0]
SafePortAudioInit(c, up, ok) ==
    IF NeedsInitialize(c)
    THEN IF ok
         THEN [count |-> CountAfterInit(c), up |-> TRUE, err |-> FALSE, phys |-> 1]
         ELSE [count |-> c, up |-> up, err |-> TRUE, phys |-> 1]
    ELSE [count |-> CountAfterInit(c), up |-> up, err |-> FALSE, phys |-> 0]

\* portaudio.go 30-39
SafePortAudioTerminate(c, up) ==
    LET d == CountAfterDec(c)
    IN  [count |-> CountAfterCheck(d),
         up |-> IF TearsDown(d) THEN FALSE ELSE up,
         phys |-> IF TearsDown(d) THEN 1 ELSE 0]

\* the guard variables after a call that returned g
GuardBecomes(g, inits) ==
    /\ paInitCount' = g.count
    /\ paUp' = g.up
    /\ ghist' = IF inits
                THEN [ghist EXCEPT !.nInitialize = @ + g.phys]
                ELSE [ghist EXCEPT !.nTerminate = @ + g.phys]
    /\ UNCHANGED <<paInitMutex, gpc, gloc>>

(***************************************************************************)
(* loopback.go, output_capture.go: the recorders                            *)
(***************************************************************************)

\* what the recorders' operations leave alone
outsideRec == <<sessVars, extVars>>

RecIds == 1..NRecs
Made(i) == rec[i].kind # "none"
\* constructors fill the lowest free slot
FreeSlot(i) == /\ rec[i].kind = "none"
               /\ \A j \in RecIds : j < i => rec[j].kind # "none"

OpLeft == rhist.ops < MaxOps
OpDone == [rhist EXCEPT !.ops = @ + 1]
OpFailed == [rhist EXCEPT !.ops = @ + 1, !.ctorFails = @ + 1]

OpenStreams == {k \in 1..Len(streams) : streams[k].open}

\* the three constructors share their body: NewLoopbackRecorder (loopback.go
\* 29-34), NewOutputCaptureRecorder (output_capture.go 19-24) and NewSession
\* (realtime.go 112-127), which returns the error of NewLoopbackRecorder
Construct(i, kind, ok) ==
    LET g == SafePortAudioInit(paInitCount, paUp, ok)
    IN  /\ OpLeft
        /\ FreeSlot(i)
        /\ GuardBecomes(g, TRUE)
        /\ IF g.err
           THEN /\ rec' = rec
                /\ rhist' = OpFailed
           ELSE /\ rec' = [rec EXCEPT ![i].kind = kind]
                /\ rhist' = OpDone
        /\ UNCHANGED <<streams, bh>>
        /\ UNCHANGED outsideRec

NewLoopbackRecorder(i, ok) == Construct(i, "loopback", ok)

NewOutputCaptureRecorder(i, ok) == Construct(i, "output", ok)

NewSession(i, ok) == Construct(i, "session", ok)

\* How a Start can end (loopback.go 46-132, output_capture.go 45-133):
\*   "enum"   portaudio.HostApis() failed (it does whenever the library is down)
\*   "nodev"  no device was selected
\*   "open"   portaudio.OpenStream failed
\*   "start"  stream.Start() failed: the stream is closed, r.stream keeps it
\*   "ok"     the stream runs
StartOutcomes == {"enum", "nodev", "open", "start", "ok"}

RecStartBody(i, how) ==
    /\ OpLeft
    /\ Made(i)
    /\ how # "enum" => paUp
    /\ how \in {"start", "ok"} => Len(streams) < MaxStreams
    /\ IF how \in {"start", "ok"}
       THEN /\ streams' = Append(streams, [owner |-> i, open |-> how = "ok",
                                           closes |-> IF how = "ok" THEN 0 ELSE 1])
            /\ rec' = [rec EXCEPT ![i].stream = Len(streams) + 1]
       ELSE UNCHANGED <<rec, streams>>
    /\ rhist' = OpDone
    /\ UNCHANGED <<guardVars, bh, extVars>>

RecStart(i, how) == RecStartBody(i, how) /\ UNCHANGED outsideRec

\* loopback.go 135-153, output_capture.go 136-153
\* 139-143 stream.Stop/Close, 146-149 close(r.Samples) unless isClosed,
\* 151 SafePortAudioTerminate() on every call
RecStopBody(i) ==
    LET g == SafePortAudioTerminate(paInitCount, paUp)
        k == rec[i].stream
    IN  /\ OpLeft
        /\ Made(i)
        /\ streams' = IF k # 0
                      THEN [streams EXCEPT ![k].open = FALSE, ![k].closes = @ + 1]
                      ELSE streams
        /\ rec' = [rec EXCEPT ![i].stream = 0,
                              ![i].isClosed = TRUE,
                              ![i].chCloses = IF rec[i].isClosed THEN @ ELSE @ + 1,
                              ![i].terms = @ + 1]
        /\ GuardBecomes(g, FALSE)
        /\ rhist' = OpDone
        /\ UNCHANGED <<bh, extVars>>

RecStop(i) == RecStopBody(i) /\ UNCHANGED outsideRec

(***************************************************************************)
(* realtime.go 721-910: blackHoleTrack as a user of the guard               *)
(***************************************************************************)

\* 733-737: SafePortAudioInit; on failure return before the defer
BHAcquire(ok) ==
    LET g == SafePortAudioInit(paInitCount, paUp, ok)
    IN  /\ OpLeft
        /\ bh.pc = "idle"
        /\ GuardBecomes(g, TRUE)
        /\ bh' = [bh EXCEPT !.pc = IF g.err THEN "done" ELSE "acquired"]
        /\ rhist' = OpDone
        /\ UNCHANGED <<rec, streams>>
        /\ UNCHANGED outsideRec

\* 740-811: enumerate, find the device, open and start the output stream.
\* Every failure returns through the deferred SafePortAudioTerminate; a
\* failed stream.Start() also through the deferred stream.Close().
BHOpen(how) ==
    LET g == SafePortAudioTerminate(paInitCount, paUp)
    IN  /\ OpLeft
        /\ bh.pc = "acquired"
        /\ how # "enum" => paUp
        /\ how \in {"start", "ok"} => Len(streams) < MaxStreams
        /\ IF how \in {"start", "ok"}
           THEN streams' = Append(streams, [owner |-> 0, open |-> how = "ok",
                                            closes |-> IF how = "ok" THEN 0 ELSE 1])
           ELSE streams' = streams
        /\ IF how = "ok"
           THEN /\ bh' = [pc |-> "loop", stream |-> Len(streams) + 1]
                /\ UNCHANGED guardVars
           ELSE /\ bh' = [bh EXCEPT !.pc = "done"]
                /\ GuardBecomes(g, FALSE)
        /\ rhist' = OpDone
        /\ UNCHANGED rec
        /\ UNCHANGED outsideRec

\* 828-843: the loop returns; the defers run last-registered first:
\* stream.Stop(), stream.Close(), SafePortAudioTerminate()
BHReturn ==
    LET g == SafePortAudioTerminate(paInitCount, paUp)
    IN  /\ OpLeft
        /\ bh.pc = "loop"
        /\ streams' = [streams EXCEPT ![bh.stream].open = FALSE,
                                      ![bh.stream].closes = @ + 1]
        /\ bh' = [pc |-> "done", stream |-> 0]
        /\ GuardBecomes(g, FALSE)
        /\ rhist' = OpDone
        /\ UNCHANGED rec
        /\ UNCHANGED outsideRec

RecNext ==
    \/ \E i \in RecIds, ok \in BOOLEAN : NewLoopbackRecorder(i, ok)
    \/ \E i \in RecIds, ok \in BOOLEAN : NewOutputCaptureRecorder(i, ok)
    \/ \E i \in RecIds, ok \in BOOLEAN : NewSession(i, ok)
    \/ \E i \in RecIds, how \in StartOutcomes : RecStart(i, how)
    \/ \E i \in RecIds : RecStop(i)
    \/ \E ok \in BOOLEAN : BHAcquire(ok)
    \/ \E how \in StartOutcomes : BHOpen(how)
    \/ BHReturn

RecInit == GuardIdle /\ RecIdle /\ SessIdle /\ ExtIdle

RecSpec == RecInit /\ [][RecNext]_vars

(***************************************************************************)
(* realtime.go: one Session, made by NewSession in slot SessRec.            *)
(* Goroutines: "app" calls Start and Stop, "app2" is a second caller of     *)
(* Stop, "snd" is the goroutine of Start (494-580), "rcv" is localTrack or  *)
(* blackHoleTrack, "wat" is its stop-watcher (273-276, 817-820), "hnd" runs *)
(* the OnOpen handler.  A panic ends the process: no step follows it.       *)
(***************************************************************************)
SessRec == 1
Stoppers == {"app", "app2"}
Alive == ~panicked

chanVars == <<stopCh, stopClosed, doneClosed, panicked>>
dcVars == <<dcState, onOpen, pcClosed, sent>>
notRecorder == <<guardVars, recVars, extVars>>

Goto(g, where) == at' = [at EXCEPT ![g] = where]

\* (*DataChannel).SendText: the message goes out only on an open channel,
\* otherwise an error comes back (ignored at 617 and 645, logged at 560)
SendText(m) == IF dcState = "open" THEN Append(sent, m) ELSE sent

MsgUpdate == [type |-> "session.update", batch |-> 0]
MsgCancel == [type |-> "response.cancel", batch |-> 0]
MsgAppend(b) == [type |-> "input_audio_buffer.append", batch |-> b]

\* the capture stream of the session's recorder delivers callbacks
CaptureRunning == \E k \in OpenStreams : streams[k].owner = SessRec

InStop(t) == at[t] \in {"stop_check", "stop_close", "stop_nil", "stop_rec", "stop_dc",
                        "stop_dcclose", "stop_sleep"}

\* ---- Session.Start, 485-595 ----

\* 487-494: s.recorder.Start(deviceName); an error is returned to the
\* caller, otherwise the send goroutine is started
ProceedsAnyway(how) == TRUE

Proceeds(how) == how = "ok"

StartRecorder(how) ==
    /\ Alive
    /\ at["app"] = "none"
    /\ RecStartBody(SessRec, how)
    /\ at' = IF Proceeds(how)
             THEN [at EXCEPT !["app"] = "start_dc", !["snd"] = "sel_eval"]
             ELSE [at EXCEPT !["app"] = "idle"]
    /\ shist' = [shist EXCEPT !.startErr = (how # "ok")]
    /\ UNCHANGED <<chanVars, dcVars, Samples, loc>>

\* 583: if s.dc.ReadyState() != webrtc.DataChannelStateOpen
InitializesAtOnce(state) == FALSE

RegistersHandler(state) == state # "open"

StartCheckDc ==
    /\ Alive
    /\ at["app"] = "start_dc"
    /\ Goto("app", IF RegistersHandler(dcState) THEN "start_reg" ELSE "init_send")
    /\ shist' = [shist EXCEPT !.lateStart = (dcState # "open")]
    /\ UNCHANGED <<chanVars, dcVars, Samples, loc, notRecorder>>

\* 584-587: s.dc.OnOpen(func() { s.initializeSession() }); a handler
\* registered on a channel that is already open is run at once
StartRegister ==
    /\ Alive
    /\ at["app"] = "start_reg"
    /\ onOpen' = "init"
    /\ at' = [at EXCEPT !["app"] = "idle",
                        !["hnd"] = IF dcState = "open" /\ @ = "none"
                                   THEN "init_send" ELSE @]
    /\ UNCHANGED <<chanVars, dcState, pcClosed, sent, Samples, loc, shist, notRecorder>>

\* ---- Session.initializeSession, 598-624, run by Start or by the handler ----

\* 615-623: s.dc.SendText(session.update), time.Sleep, and the return
InitSend(g) ==
    /\ Alive
    /\ at[g] = "init_send"
    /\ sent' = SendText(MsgUpdate)
    /\ Goto(g, IF g = "app" THEN "idle" ELSE "done")
    /\ UNCHANGED <<chanVars, dcState, onOpen, pcClosed, Samples, loc, shist, notRecorder>>

\* the transport opens the data channel and runs the registered handler:
\* the one of Conn (147-151) only logs, the one of Start initializes
DcOpens ==
    /\ Alive
    /\ dcState = "connecting"
    /\ ~pcClosed
    /\ dcState' = "open"
    /\ at' = [at EXCEPT !["hnd"] = IF onOpen = "init" /\ @ = "none"
                                   THEN "init_send" ELSE @]
    /\ UNCHANGED <<chanVars, onOpen, pcClosed, sent, Samples, loc, shist, notRecorder>>

\* ---- Session.Stop, 627-658 ----

CallStop(t) ==
    /\ Alive
    /\ IF t = "app"
       THEN at[t] \in {"none", "idle"} /\ shist.appStops < MaxStops
       ELSE at[t] = "none" /\ shist.conc
    /\ Goto(t, "stop_check")
    /\ shist' = [shist EXCEPT
                    !.appStops = IF t = "app" THEN @ + 1 ELSE @,
                    !.overlap = @ \/ \E u \in Stoppers \ {t} : InStop(u),
                    !.stopAtRun = @ \/ (/\ at["snd"] \notin {"none", "returned"}
                                        /\ at["rcv"] \in {"rcv_sel", "rcv_read", "rcv_proc"})]
    /\ UNCHANGED <<chanVars, dcVars, Samples, loc, notRecorder>>

\* 629: if s.stopCh != nil
NeverSignals(ch) == FALSE

SignalsStop(ch) == ch # "nil"

StopCheck(t) ==
    /\ Alive
    /\ at[t] = "stop_check"
    /\ Goto(t, IF SignalsStop(stopCh) THEN "stop_close" ELSE "stop_rec")
    /\ UNCHANGED <<chanVars, dcVars, Samples, loc, shist, notRecorder>>

\* 630: close(s.stopCh); closing a closed or a nil channel panics
StopClose(t) ==
    /\ Alive
    /\ at[t] = "stop_close"
    /\ IF stopCh = "nil" \/ stopClosed
       THEN /\ panicked' = TRUE
            /\ stopClosed' = stopClosed
       ELSE /\ panicked' = panicked
            /\ stopClosed' = TRUE
    /\ shist' = [shist EXCEPT !.stopCloses = IF stopCh = "nil" THEN @ ELSE @ + 1]
    /\ Goto(t, "stop_nil")
    /\ UNCHANGED <<stopCh, doneClosed, dcVars, Samples, loc, notRecorder>>

\* 631: s.stopCh = nil
StopNil(t) ==
    /\ Alive
    /\ at[t] = "stop_nil"
    /\ stopCh' = "nil"
    /\ Goto(t, "stop_rec")
    /\ UNCHANGED <<stopClosed, doneClosed, panicked, dcVars, Samples, loc, shist,
                   notRecorder>>

\* 635-637: s.recorder.Stop()
StopRecorder(t) ==
    /\ Alive
    /\ at[t] = "stop_rec"
    /\ RecStopBody(SessRec)
    /\ Goto(t, "stop_dc")
    /\ UNCHANGED <<chanVars, dcVars, Samples, loc, shist>>

\* 640-646: if the data channel is open, _ = s.dc.SendText(response.cancel)
StopCancel(t) ==
    /\ Alive
    /\ at[t] = "stop_dc"
    /\ sent' = SendText(MsgCancel)
    /\ Goto(t, IF dcState = "open" THEN "stop_dcclose" ELSE "stop_sleep")
    /\ UNCHANGED <<chanVars, dcState, onOpen, pcClosed, Samples, loc, shist, notRecorder>>

\* 648: _ = s.dc.Close()
StopDcClose(t) ==
    /\ Alive
    /\ at[t] = "stop_dcclose"
    /\ dcState' = "closed"
    /\ Goto(t, "stop_sleep")
    /\ UNCHANGED <<chanVars, onOpen, pcClosed, sent, Samples, loc, shist, notRecorder>>

\* 652-657: time.Sleep, then s.pc.Close(), which also closes the data
\* channel and ends the remote track; and the return
PcKeptOpen == pcClosed
PcAfterStop == TRUE

StopPcClose(t) ==
    /\ Alive
    /\ at[t] = "stop_sleep"
    /\ pcClosed' = PcAfterStop
    /\ dcState' = IF PcAfterStop THEN "closed" ELSE dcState
    /\ Goto(t, "idle")
    /\ UNCHANGED <<chanVars, onOpen, sent, Samples, loc, shist, notRecorder>>

\* ---- the send goroutine, 494-580 ----

\* 504-505: the select evaluates s.stopCh when it is entered
SndEval ==
    /\ Alive
    /\ at["snd"] = "sel_eval"
    /\ loc' = [loc EXCEPT !.sref = stopCh]
    /\ Goto("snd", "sel_wait")
    /\ UNCHANGED <<chanVars, dcVars, Samples, shist, notRecorder>>

\* 505-509: case <-s.stopCh: return
SndStop ==
    /\ Alive
    /\ at["snd"] = "sel_wait"
    /\ loc.sref = "ch" /\ stopClosed
    /\ Goto("snd", "snd_defer")
    /\ UNCHANGED <<chanVars, dcVars, Samples, loc, shist, notRecorder>>

\* 510-531: case samples, ok := <-s.recorder.Samples, with a batch; if the
\* data channel is not open the batch is skipped
NewestBatch(q) == q[Len(q)]

\* samples, ok := <-s.recorder.Samples: the batch queued first
NextBatch(q) == Head(q)

NeverSkips(state) == FALSE

SkipsBatch(state) == state # "open"

SndRecv ==
    /\ Alive
    /\ at["snd"] = "sel_wait"
    /\ Samples # <<>>
    /\ loc' = [loc EXCEPT !.cur = NextBatch(Samples), !.late = stopClosed]
    /\ Samples' = Tail(Samples)
    /\ Goto("snd", IF SkipsBatch(dcState) THEN "sel_eval" ELSE "snd_send")
    /\ shist' = IF dcState # "open"
                THEN [shist EXCEPT !.skipped = @ \cup {Head(Samples)}]
                ELSE [shist EXCEPT !.taken = @ \cup {Head(Samples)}]
    /\ UNCHANGED <<chanVars, dcVars, notRecorder>>

\* 511-513: the channel is closed and drained: return
SndClosed ==
    /\ Alive
    /\ at["snd"] = "sel_wait"
    /\ Samples = <<>> /\ rec[SessRec].isClosed
    /\ Goto("snd", "snd_defer")
    /\ UNCHANGED <<chanVars, dcVars, Samples, loc, shist, notRecorder>>

\* 534-561: convert, encode, s.dc.SendText(input_audio_buffer.append)
SndSend ==
    /\ Alive
    /\ at["snd"] = "snd_send"
    /\ sent' = SendText(MsgAppend(loc.cur))
    /\ shist' = [shist EXCEPT !.lateSent = @ \/ (loc.late /\ dcState = "open"),
                              !.sendFailed = @ \/ dcState # "open"]
    /\ Goto("snd", "sel_eval")
    /\ UNCHANGED <<chanVars, dcState, onOpen, pcClosed, Samples, loc, notRecorder>>

\* 495: defer s.recorder.Stop()
SndDefer ==
    /\ Alive
    /\ at["snd"] = "snd_defer"
    /\ RecStopBody(SessRec)
    /\ Goto("snd", "returned")
    /\ UNCHANGED <<chanVars, dcVars, Samples, loc, shist>>

\* loopback.go 102-115: the capture callback offers a batch without
\* blocking; a send on a closed channel panics
\* n batches at most are delivered, to a channel of capacity cap
CaptureInto(n, cap) ==
    /\ Alive
    /\ CaptureRunning
    /\ shist.captured < n
    /\ shist' = [shist EXCEPT
                    !.captured = @ + 1,
                    !.enqueued = IF ~rec[SessRec].isClosed /\ Len(Samples) < cap
                                 THEN Append(@, shist.captured + 1) ELSE @]
    /\ IF rec[SessRec].isClosed
       THEN /\ panicked' = TRUE
            /\ Samples' = Samples
       ELSE /\ panicked' = panicked
            /\ Samples' = IF Len(Samples) < cap
                          THEN Append(Samples, shist.captured + 1)
                          ELSE Samples
    /\ UNCHANGED <<stopCh, stopClosed, doneClosed, dcVars, at, loc, notRecorder>>

Capture == CaptureInto(MaxBatches, SamplesCap)

\* the remote side closes the data channel
DcCloses ==
    /\ Alive
    /\ dcState = "open"
    /\ dcState' = "closed"
    /\ UNCHANGED <<chanVars, onOpen, pcClosed, sent, Samples, at, loc, shist, notRecorder>>

\* ---- the receive loop: localTrack 223-374, blackHoleTrack 721-910 ----

\* 216-220, 714-718: OnTrack starts the loop in a goroutine of its own.
\* 224-276: decoder, player, file; a failure returns before the loop.
\* 270-276: done := make(chan struct{}), and the watcher goroutine
OnTrack(ok) ==
    /\ Alive
    /\ at["rcv"] = "none"
    /\ ~pcClosed
    /\ at' = IF ok
             THEN [at EXCEPT !["rcv"] = "rcv_sel", !["wat"] = "w_eval"]
             ELSE [at EXCEPT !["rcv"] = "returned"]
    /\ UNCHANGED <<chanVars, dcVars, Samples, loc, shist, notRecorder>>

\* 274: the watcher evaluates s.stopCh
WatEval ==
    /\ Alive
    /\ at["wat"] = "w_eval"
    /\ loc' = [loc EXCEPT !.wref = stopCh]
    /\ Goto("wat", "w_wait")
    /\ UNCHANGED <<chanVars, dcVars, Samples, shist, notRecorder>>

\* 274-275: <-s.stopCh returns once the channel is closed; close(done)
WatFire ==
    /\ Alive
    /\ at["wat"] = "w_wait"
    /\ loc.wref = "ch" /\ stopClosed
    /\ doneClosed' = TRUE
    /\ Goto("wat", "done")
    /\ UNCHANGED <<stopCh, stopClosed, panicked, dcVars, Samples, loc, shist, notRecorder>>

\* 286-295: select { case <-done: return; default: ... }
RcvSelect ==
    /\ Alive
    /\ at["rcv"] = "rcv_sel"
    /\ Goto("rcv", IF doneClosed THEN "returned" ELSE "rcv_read")
    /\ UNCHANGED <<chanVars, dcVars, Samples, loc, shist, notRecorder>>

\* 297: track.ReadRTP() returns a packet the remote side delivered
RcvPacket ==
    /\ Alive
    /\ at["rcv"] = "rcv_read"
    /\ ~pcClosed
    /\ shist.arrived < MaxPackets
    /\ shist' = [shist EXCEPT !.arrived = @ + 1]
    /\ Goto("rcv", "rcv_proc")
    /\ UNCHANGED <<chanVars, dcVars, Samples, loc, notRecorder>>

\* 298-307: track.ReadRTP() fails with io.EOF or a "closed" error once the
\* peer connection is closed: return
RcvEnd ==
    /\ Alive
    /\ at["rcv"] = "rcv_read"
    /\ pcClosed
    /\ Goto("rcv", "returned")
    /\ UNCHANGED <<chanVars, dcVars, Samples, loc, shist, notRecorder>>

\* 308-309: any other error of track.ReadRTP(): continue
RcvTransient ==
    /\ Alive
    /\ at["rcv"] = "rcv_read"
    /\ ~pcClosed
    /\ Goto("rcv", "rcv_sel")
    /\ UNCHANGED <<chanVars, dcVars, Samples, loc, shist, notRecorder>>

\* 312-372: decode, play, save; the loop goes on whether or not that worked
RcvProcess ==
    /\ Alive
    /\ at["rcv"] = "rcv_proc"
    /\ Goto("rcv", "rcv_sel")
    /\ UNCHANGED <<chanVars, dcVars, Samples, loc, shist, notRecorder>>

SndStep == SndEval \/ SndStop \/ SndRecv \/ SndClosed \/ SndSend \/ SndDefer
RcvStep == RcvSelect \/ RcvPacket \/ RcvEnd \/ RcvTransient \/ RcvProcess
WatStep == WatEval \/ WatFire
StopStep(t) == StopCheck(t) \/ StopClose(t) \/ StopNil(t) \/ StopRecorder(t)
               \/ StopCancel(t) \/ StopDcClose(t) \/ StopPcClose(t)

SessNext ==
    \/ \E how \in StartOutcomes : StartRecorder(how)
    \/ StartCheckDc
    \/ StartRegister
    \/ \E g \in {"app", "hnd"} : InitSend(g)
    \/ DcOpens
    \/ CallStop("app")
    \/ StopCheck("app")
    \/ StopClose("app")
    \/ StopNil("app")
    \/ StopRecorder("app")
    \/ StopCancel("app")
    \/ StopDcClose("app")
    \/ StopPcClose("app")
    \/ SndEval
    \/ SndStop
    \/ SndRecv
    \/ SndClosed
    \/ SndSend
    \/ SndDefer
    \/ Capture
    \/ \E ok \in BOOLEAN : OnTrack(ok)
    \/ WatEval
    \/ WatFire
    \/ RcvSelect
    \/ RcvPacket
    \/ RcvEnd
    \/ RcvTransient
    \/ RcvProcess

\* Session.Stop alone, called by two goroutines at once or one after the other
StopNext ==
    \/ \E t \in Stoppers : CallStop(t)
    \/ \E t \in Stoppers : StopCheck(t)
    \/ \E t \in Stoppers : StopClose(t)
    \/ \E t \in Stoppers : StopNil(t)
    \/ \E t \in Stoppers : StopRecorder(t)
    \/ \E t \in Stoppers : StopCancel(t)
    \/ \E t \in Stoppers : StopDcClose(t)
    \/ \E t \in Stoppers : StopPcClose(t)

\* the state NewSession (55-128) returns: the recorder holds the guard, the
\* stop channel is open, the data channel is connecting
SessMade(concurrent) ==
    /\ paInitMutex = NoCaller
    /\ paInitCount = 1
    /\ paUp = TRUE
    /\ gpc = [t \in Callers |-> "idle"]
    /\ gloc = [t \in Callers |-> [calls |-> 0, pre |-> 0, preUp |-> FALSE,
                                  err |-> FALSE, tore |-> FALSE]]
    /\ ghist = [nInitialize |-> 1, nTerminate |-> 0,
                initStarted |-> 0, initOk |-> 0, initFail |-> 0,
                termStarted |-> 0, termDone |-> 0,
                ordered |-> TRUE]
    /\ rec = [i \in 1..NRecs |->
                [kind |-> IF i = SessRec THEN "session" ELSE "none", stream |-> 0,
                 isClosed |-> FALSE, terms |-> 0, chCloses |-> 0]]
    /\ streams = <<>>
    /\ bh = [pc |-> "idle", stream |-> 0]
    /\ rhist = [ops |-> 0, ctorFails |-> 0, delivered |-> FALSE, sendOnClosed |-> FALSE]
    /\ stopCh = "ch"
    /\ stopClosed = FALSE
    /\ doneClosed = FALSE
    /\ panicked = FALSE
    /\ dcState \in {"connecting", "open"}
    /\ onOpen = "log"
    /\ pcClosed = FALSE
    /\ sent = <<>>
    /\ Samples = <<>>
    /\ at = [g \in Goroutines |-> "none"]
    /\ loc = [sref |-> "ch", wref |-> "ch", cur |-> 0, late |-> FALSE]
    /\ shist = [appStops |-> 0, overlap |-> FALSE, stopCloses |-> 0,
                captured |-> 0, arrived |-> 0, stopAtRun |-> FALSE,
                lateSent |-> FALSE, conc |-> concurrent,
                skipped |-> {}, taken |-> {}, startErr |-> FALSE,
                lateStart |-> FALSE, enqueued |-> <<>>, sendFailed |-> FALSE]
    /\ ExtIdle

SessInit == SessMade(FALSE)

SessSpec == SessInit /\ [][SessNext]_vars

StopInit == SessMade(TRUE)

StopSpec == StopInit /\ [][StopNext]_vars

\* every goroutine is scheduled again and again: a step of it that stays
\* possible is taken
SessFair ==
    /\ WF_vars(SndStep)
    /\ WF_vars(RcvStep)
    /\ WF_vars(WatStep)
    /\ WF_vars(StopStep("app"))
    /\ WF_vars(StartCheckDc \/ StartRegister \/ InitSend("app"))
    /\ WF_vars(InitSend("hnd"))

SessLive == SessInit /\ [][SessNext]_vars /\ SessFair

(***************************************************************************)
(* loopback.go, output_capture.go: one recorder after its constructor, its  *)
(* capture callback, the callers of Stop and a consumer of Samples.  The    *)
(* recorder is started at most once, before the first Stop takes r.mu.      *)
(* portaudio's stream.Stop() returns once the running callback has.         *)
(***************************************************************************)
outsidePipe == <<recVars, sessVars, trackVars, wav, sel, moreVars>>

PipeAlive == ~phist.panicked

FirstN(q, n) == SubSeq(q, 1, IF Len(q) < n THEN Len(q) ELSE n)

\* loopback.go 109-114: select { case r.Samples <- sampleCopy: default: }
KeepNewest(q, b) == IF Len(q) < PipeCap THEN Append(q, b) ELSE Append(Tail(q), b)
Offer(q, b) == IF Len(q) < PipeCap THEN Append(q, b) ELSE q

\* loopback.go 46-132, output_capture.go 45-133: Start runs under r.mu
PStart(how) ==
    /\ PipeAlive
    /\ pmu = NoCaller
    /\ ~phist.started
    /\ \A t \in Stoppers1 : pat[t] \in {"idle", "lock"}
    /\ pstream' = CASE how = "ok" -> "running"
                    [] how = "start" -> "closed"
                    [] OTHER -> "none"
    /\ phist' = [phist EXCEPT !.started = TRUE]
    /\ UNCHANGED <<pk, pmu, pq, chClosed, pisClosed, pcb, pat, pcons>>
    /\ UNCHANGED <<guardVars, outsidePipe>>

\* the running stream calls the callback with the next batch
CbInvoke ==
    /\ PipeAlive
    /\ pstream = "running"
    /\ pcb = "idle"
    /\ Len(phist.offered) < MaxOffers
    /\ pcb' = "offer"
    /\ phist' = [phist EXCEPT !.offered = Append(@, Len(@) + 1)]
    /\ UNCHANGED <<pk, pmu, pstream, pq, chClosed, pisClosed, pat, pcons>>
    /\ UNCHANGED <<guardVars, outsidePipe>>

\* loopback.go 102-115: copy, offer without blocking, return
LoopbackCallback ==
    LET b == Len(phist.offered)
    IN  /\ PipeAlive
        /\ pk = "loopback"
        /\ pcb = "offer"
        /\ pcb' = "idle"
        /\ IF chClosed
           THEN /\ phist' = [phist EXCEPT !.panicked = TRUE]
                /\ pq' = pq
           ELSE /\ pq' = Offer(pq, b)
                /\ phist' = [phist EXCEPT
                                !.accepted = IF Len(pq) < PipeCap THEN Append(@, b) ELSE @,
                                !.pending = Append(@, b)]
        /\ UNCHANGED <<pk, pmu, pstream, chClosed, pisClosed, pat, pcons>>
        /\ UNCHANGED <<guardVars, outsidePipe>>

\* output_capture.go 115-120: copy, r.Samples <- batch, return; the send
\* waits for room in the channel
OutputCallback ==
    LET b == Len(phist.offered)
    IN  /\ PipeAlive
        /\ pk = "output"
        /\ pcb = "offer"
        /\ chClosed \/ Len(pq) < PipeCap
        /\ pcb' = "idle"
        /\ IF chClosed
           THEN /\ phist' = [phist EXCEPT !.panicked = TRUE]
                /\ pq' = pq
           ELSE /\ pq' = Append(pq, b)
                /\ phist' = [phist EXCEPT !.accepted = Append(@, b),
                                          !.pending = Append(@, b)]
        /\ UNCHANGED <<pk, pmu, pstream, chClosed, pisClosed, pat, pcons>>
        /\ UNCHANGED <<guardVars, outsidePipe>>

\* ---- Stop: loopback.go 135-153, output_capture.go 136-153 ----

PCallStop(t) ==
    /\ PipeAlive
    /\ pat[t] = "idle"
    /\ pat' = [pat EXCEPT ![t] = "lock"]
    /\ UNCHANGED <<pk, pmu, pstream, pq, chClosed, pisClosed, pcb, pcons, phist>>
    /\ UNCHANGED <<guardVars, outsidePipe>>

\* r.mu.Lock()
PStopLock(t) ==
    /\ PipeAlive
    /\ pat[t] = "lock"
    /\ pmu = NoCaller
    /\ pmu' = t
    /\ pat' = [pat EXCEPT ![t] = "stream"]
    /\ UNCHANGED <<pk, pstream, pq, chClosed, pisClosed, pcb, pcons, phist>>
    /\ UNCHANGED <<guardVars, outsidePipe>>

\* if r.stream != nil { r.stream.Stop(); r.stream.Close(); r.stream = nil }
PStopStream(t) ==
    /\ PipeAlive
    /\ pat[t] = "stream"
    /\ pstream = "running" => pcb = "idle"
    /\ pstream' = "none"
    /\ pat' = [pat EXCEPT ![t] = "close"]
    /\ UNCHANGED <<pk, pmu, pq, chClosed, pisClosed, pcb, pcons, phist>>
    /\ UNCHANGED <<guardVars, outsidePipe>>

\* if !r.isClosed { close(r.Samples); r.isClosed = true }
ClosesAgain(flag) == FALSE
SkipsClose(flag) == flag

LeftOpenByStop == chClosed
ClosedByStop == TRUE

PStopClose(t) ==
    /\ PipeAlive
    /\ pat[t] = "close"
    /\ IF SkipsClose(pisClosed)
       THEN UNCHANGED <<chClosed, pisClosed, phist>>
       ELSE /\ chClosed' = ClosedByStop
            /\ pisClosed' = TRUE
            /\ phist' = [phist EXCEPT !.closes = @ + 1,
                                      !.panicked = @ \/ chClosed]
    /\ pat' = [pat EXCEPT ![t] = "term"]
    /\ UNCHANGED <<pk, pmu, pstream, pq, pcb, pcons>>
    /\ UNCHANGED <<guardVars, outsidePipe>>

\* SafePortAudioTerminate(); return nil, and the deferred r.mu.Unlock()
PStopTerm(t) ==
    /\ PipeAlive
    /\ pat[t] = "term"
    /\ GuardBecomes(SafePortAudioTerminate(paInitCount, paUp), FALSE)
    /\ pmu' = NoCaller
    /\ pat' = [pat EXCEPT ![t] = "done"]
    /\ UNCHANGED <<pk, pstream, pq, chClosed, pisClosed, pcb, pcons, phist>>
    /\ UNCHANGED outsidePipe

\* ---- the consumer: for samples := range rec.Samples ----

\* loopback_test.go 131-174: a batch is received
ConsRecv ==
    /\ PipeAlive
    /\ pcons = "ranging"
    /\ pq # <<>>
    /\ pq' = Tail(pq)
    /\ phist' = [phist EXCEPT !.received = Append(@, Head(pq)),
                              !.pending = Tail(pq)]
    /\ UNCHANGED <<pk, pmu, pstream, chClosed, pisClosed, pcb, pat, pcons>>
    /\ UNCHANGED <<guardVars, outsidePipe>>

\* the channel is closed and drained: the range loop ends
ConsEnd ==
    /\ PipeAlive
    /\ pcons = "ranging"
    /\ pq = <<>>
    /\ chClosed
    /\ pcons' = "done"
    /\ UNCHANGED <<pk, pmu, pstream, pq, chClosed, pisClosed, pcb, pat, phist>>
    /\ UNCHANGED <<guardVars, outsidePipe>>

PStopStep(t) == PStopLock(t) \/ PStopStream(t) \/ PStopClose(t) \/ PStopTerm(t)

PipeNext ==
    \/ \E how \in StartOutcomes : PStart(how)
    \/ CbInvoke
    \/ LoopbackCallback
    \/ OutputCallback
    \/ \E t \in Stoppers1 : PCallStop(t)
    \/ \E t \in Stoppers1 : PStopLock(t)
    \/ \E t \in Stoppers1 : PStopStream(t)
    \/ \E t \in Stoppers1 : PStopClose(t)
    \/ \E t \in Stoppers1 : PStopTerm(t)
    \/ ConsRecv
    \/ ConsEnd

\* the state NewLoopbackRecorder (29-34) or NewOutputCaptureRecorder (19-24)
\* returns, with or without a goroutine ranging over Samples
PipeInit ==
    /\ paInitMutex = NoCaller
    /\ paInitCount = 1
    /\ paUp = TRUE
    /\ gpc = [t \in Callers |-> "idle"]
    /\ gloc = [t \in Callers |-> [calls |-> 0, pre |-> 0, preUp |-> FALSE,
                                  err |-> FALSE, tore |-> FALSE]]
    /\ ghist = [nInitialize |-> 1, nTerminate |-> 0,
                initStarted |-> 0, initOk |-> 0, initFail |-> 0,
                termStarted |-> 0, termDone |-> 0,
                ordered |-> TRUE]
    /\ RecIdle /\ SessIdle /\ TrackIdle /\ WavIdle /\ SelIdle /\ MoreIdle
    /\ pk \in {"loopback", "output"}
    /\ pmu = NoCaller
    /\ pstream = "none"
    /\ pq = <<>>
    /\ chClosed = FALSE
    /\ pisClosed = FALSE
    /\ pcb = "idle"
    /\ pat = [t \in Stoppers1 |-> "idle"]
    /\ pcons \in {"ranging", "absent"}
    /\ phist = [offered |-> <<>>, accepted |-> <<>>, received |-> <<>>,
                pending |-> <<>>, closes |-> 0, panicked |-> FALSE, started |-> FALSE]

PipeSpec == PipeInit /\ [][PipeNext]_vars

\* the callback, the callers of Stop and the consumer are scheduled again
\* and again
PipeFair ==
    /\ WF_vars(LoopbackCallback \/ OutputCallback)
    /\ \A t \in Stoppers1 : WF_vars(PStopStep(t))
    /\ WF_vars(ConsRecv \/ ConsEnd)

PipeLive == PipeInit /\ [][PipeNext]_vars /\ PipeFair

(***************************************************************************)
(* realtime.go: the audio file of localTrack, writeWavHeader and            *)
(* updateWavHeader                                                          *)
(*                                                                          *)
(* A file is its bytes (each 0..255, offset k at index k+1) and the offset  *)
(* of the next write.  An int64 or uint32 is its sequence of base-256       *)
(* digits, most significant first, so that sizes of 2^32 and more can be    *)
(* told apart from their truncations.                                       *)
(***************************************************************************)
Bytes == 0..255

EmptyFile == [bytes |-> <<>>, pos |-> 0]

\* a sequence in reverse order
RECURSIVE Reverse(_)
Reverse(s) == IF s = <<>> THEN <<>> ELSE Append(Reverse(Tail(s)), Head(s))

\* n zero bytes
Zeros(n) == [i \in 1..n |-> 0]

\* file.Seek(off, 0)
Seek(f, off) == [f EXCEPT !.pos = off]

\* file.Write(bs): the bytes go to the current offset, over what is there,
\* the file growing (with zeros in a gap) as far as needed
Write(f, bs) ==
    LET old == f.bytes
        end == f.pos + Len(bs)
        len == IF end > Len(old) THEN end ELSE Len(old)
    IN  [bytes |-> [i \in 1..len |->
                       IF i > f.pos /\ i <= end THEN bs[i - f.pos]
                       ELSE IF i <= Len(old) THEN old[i] ELSE 0],
         pos |-> end]

\* uint16(n) and uint32(n) of a small non-negative int
Uint16(n) == <<(n \div 256) % 256, n % 256>>
Uint32(n) == <<(n \div 16777216) % 256, (n \div 65536) % 256,
               (n \div 256) % 256, n % 256>>

\* int64(n) of a small non-negative int
Int64(n) == Zeros(4) \o Uint32(n)

\* uint32(x) of an int64: the low 32 bits
TruncUint32(x) == SubSeq(x, Len(x) - 3, Len(x))

\* x + k in the width of x, k a small non-negative int
RECURSIVE AddInt(_, _)
AddInt(x, k) ==
    IF x = <<>> THEN <<>>
    ELSE LET s == x[Len(x)] + k
         IN  Append(AddInt(SubSeq(x, 1, Len(x) - 1), s \div 256), s % 256)

\* the bytes binary.LittleEndian puts for an unsigned value
AsBigEndian(u) == u

LittleEndian(u) == Reverse(u)

\* binary.Write(file, binary.LittleEndian, u)
BinaryWrite(f, u) == Write(f, LittleEndian(u))

sampleRate == 48000

\* the thirteen writes of writeWavHeader(file, rate, numChannels, bitsPerSample)
HeaderFields(rate, numChannels, bitsPerSample) ==
    << <<82, 73, 70, 70>>,                                     \* "RIFF"
       LittleEndian(Uint32(0)),
       <<87, 65, 86, 69>>,                                     \* "WAVE"
       <<102, 109, 116, 32>>,                                  \* "fmt "
       LittleEndian(Uint32(16)),
       LittleEndian(Uint16(1)),
       LittleEndian(Uint16(numChannels)),
       LittleEndian(Uint32(rate)),
       LittleEndian(Uint32((rate * numChannels * bitsPerSample) \div 8)),
       LittleEndian(Uint16((numChannels * bitsPerSample) \div 8)),
       LittleEndian(Uint16(bitsPerSample)),
       <<100, 97, 116, 97>>,                                   \* "data"
       LittleEndian(Uint32(0)) >>

NHeaderWrites == Len(HeaderFields(sampleRate, 1, 16))

RECURSIVE WriteFields(_, _, _)
WriteFields(f, fields, n) ==
    IF n = 0 THEN f
    ELSE Write(WriteFields(f, fields, n - 1), fields[n])

\* writeWavHeader: the writes before the failAt-th are made, the failAt-th
\* fails and ends the function; failAt = NHeaderWrites + 1 is no failure
WriteWavHeader(f, rate, numChannels, bitsPerSample, failAt) ==
    WriteFields(f, HeaderFields(rate, numChannels, bitsPerSample), failAt - 1)

DataSizeOffsetShifted == 40 + 4

DataSizeOffset == 40

RiffSizeOffset == 4

RiffExtra == 36

\* the steps of updateWavHeader: seek, write, seek, write
NUpdateSteps == 4

\* updateWavHeader(file, dataSize): the steps before the failAt-th are
\* made, the failAt-th fails and ends the function with its error;
\* failAt = NUpdateSteps + 1 is no failure
UpdateWavHeader(f, dataSize, failAt) ==
    LET f1 == Seek(f, DataSizeOffset)
        f2 == BinaryWrite(f1, TruncUint32(dataSize))
        f3 == Seek(f2, RiffSizeOffset)
        f4 == BinaryWrite(f3, TruncUint32(AddInt(dataSize, RiffExtra)))
    IN  [file |-> CASE failAt = 1 -> f
                    [] failAt = 2 -> f1
                    [] failAt = 3 -> f2
                    [] failAt = 4 -> f3
                    [] OTHER      -> f4,
         err  |-> failAt <= NUpdateSteps]

outsideWav == <<guardVars, recVars, sessVars, pipeVars, trackVars, sel, moreVars>>

\* data sizes that updateWavHeader is given, as int64: small ones, ones
\* that carry into the next byte when 36 is added, and ones about 2^32
DataSizes ==
    { <<0, 0, 0, d4, d3, d2, d1, d0>> :
        d4 \in {0, 1}, d3 \in {0, 255}, d2 \in {0, 255}, d1 \in {0, 255},
        d0 \in {0, 1, 219, 220, 255} }

\* the audio bytes in the file when it is given to updateWavHeader
DataRegions == UNION { [1..n -> {1, 255}] : n \in 0..MaxData }

\* os.Create succeeded; writeWavHeader(audioFile, sampleRate, 1, 16)
WavWriteHeader ==
    /\ wav.pc = "create"
    /\ \E failAt \in 1..(NHeaderWrites + 1) :
          wav' = [wav EXCEPT !.pc = "data",
                             !.file = WriteWavHeader(wav.file, sampleRate, 1, 16, failAt),
                             !.hdrErr = failAt <= NHeaderWrites]
    /\ UNCHANGED outsideWav

\* the frames written since: audioFile.Write
WavWriteData ==
    /\ wav.pc = "data"
    /\ \E d \in DataRegions :
          wav' = [wav EXCEPT !.pc = "final", !.file = Write(wav.file, d)]
    /\ UNCHANGED outsideWav

\* updateWavHeader(audioFile, dataSize)
WavFinalize ==
    /\ wav.pc = "final"
    /\ \E failAt \in 1..(NUpdateSteps + 1) :
          LET r == UpdateWavHeader(wav.file, wav.dataSize, failAt)
          IN  wav' = [wav EXCEPT !.pc = "done", !.before = wav.file,
                                 !.file = r.file, !.err = r.err]
    /\ UNCHANGED outsideWav

WavNext == WavWriteHeader \/ WavWriteData \/ WavFinalize

WavInit ==
    /\ GuardIdle /\ RecIdle /\ SessIdle /\ PipeIdle /\ TrackIdle /\ SelIdle /\ MoreIdle
    /\ \E d \in DataSizes :
          wav = [pc |-> "create", file |-> EmptyFile, before |-> EmptyFile,
                 dataSize |-> d, hdrErr |-> FALSE, err |-> FALSE]

WavSpec == WavInit /\ [][WavNext]_vars

(***************************************************************************)
(* realtime.go: localTrack with its audio file                              *)
(***************************************************************************)
outsideTrack == <<guardVars, recVars, sessVars, pipeVars, wav, sel, moreVars>>

\* the decoded frames: pcm[:n] as int16 values
Frames == { <<1>>, <<-2, 258>> }

\* lines 339-342: each sample as its low byte and its high byte
RECURSIVE SamplesToBytes(_)
SamplesToBytes(fr) ==
    IF fr = <<>> THEN <<>>
    ELSE <<Head(fr) % 256, (Head(fr) \div 256) % 256>> \o SamplesToBytes(Tail(fr))

\* the first n bytes of bs
Partial(bs, n) == SubSeq(bs, 1, IF n < Len(bs) THEN n ELSE Len(bs))

\* the file as updateWavHeader and Write see it
FileOf(a) == [bytes |-> a.bytes, pos |-> a.pos]

\* if audioFile != nil { updateWavHeader(audioFile, totalAudioBytes) }
NoFinalize(a) == FALSE

FinalizesOnStop(a) == a.ok

FinalizesOnClosure(a) == a.ok

\* the finalize-and-return of the two exits of the loop
TReturn(finalizes, how) ==
    /\ tpc' = "returned"
    /\ IF finalizes
         THEN \E failAt \in 1..(NUpdateSteps + 1) :
                LET r == UpdateWavHeader(FileOf(audioFile), Int64(totalAudioBytes), failAt)
                IN  /\ audioFile' = [ok |-> TRUE, bytes |-> r.file.bytes, pos |-> r.file.pos]
                    /\ thist' = [thist EXCEPT !.nFinal = @ + 1,
                                              !.finalArg = totalAudioBytes,
                                              !.via = how]
         ELSE /\ thist' = [thist EXCEPT !.via = how]
              /\ UNCHANGED audioFile
    /\ UNCHANGED <<totalAudioBytes, audioBuffer, tenv>>

\* lines 224-240: the decoder and the player context; an error returns
TSetup ==
    /\ tpc = "start"
    /\ \E ok \in BOOLEAN :
          /\ tpc' = IF ok THEN "create" ELSE "returned"
          /\ thist' = [thist EXCEPT !.via = IF ok THEN @ ELSE "setup"]
    /\ UNCHANGED <<audioFile, totalAudioBytes, audioBuffer, tenv, outsideTrack>>

\* lines 258-267: os.Create; on success writeWavHeader, its result unused
TCreate ==
    /\ tpc = "create"
    /\ \E created \in BOOLEAN, failAt \in 1..(NHeaderWrites + 1) :
          audioFile' =
              IF created
                THEN LET f == WriteWavHeader(EmptyFile, sampleRate, 1, 16, failAt)
                     IN  [ok |-> TRUE, bytes |-> f.bytes, pos |-> f.pos]
                ELSE audioFile
    /\ thist' = [thist EXCEPT !.hdrLen = Len(audioFile'.bytes)]
    /\ tpc' = "select"
    /\ UNCHANGED <<totalAudioBytes, audioBuffer, tenv, outsideTrack>>

\* lines 273-276: the session's stop signal reaches done
TStopSignal ==
    /\ tpc \notin {"idle", "returned"}
    /\ ~tenv.done
    /\ tenv' = [tenv EXCEPT !.done = TRUE]
    /\ UNCHANGED <<tpc, audioFile, totalAudioBytes, audioBuffer, thist, outsideTrack>>

\* the peer connection is closed
TTransportClose ==
    /\ tpc \notin {"idle", "returned"}
    /\ ~tenv.eof
    /\ tenv' = [tenv EXCEPT !.eof = TRUE]
    /\ UNCHANGED <<tpc, audioFile, totalAudioBytes, audioBuffer, thist, outsideTrack>>

\* lines 286-294: case <-done
TSelectDone ==
    /\ tpc = "select"
    /\ tenv.done
    /\ TReturn(FinalizesOnStop(audioFile), "stop")
    /\ UNCHANGED outsideTrack

\* line 295: default
TSelectDefault ==
    /\ tpc = "select"
    /\ ~tenv.done
    /\ tpc' = "read"
    /\ UNCHANGED <<audioFile, totalAudioBytes, audioBuffer, tenv, thist, outsideTrack>>

\* lines 297-323: ReadRTP gives a packet or a passing error; the packet
\* decodes to a frame or the decoder fails
ReturnsOnError == "returned"

\* line 309: continue
AfterReadError == "select"

\* line 322: continue
AfterDecodeError == "select"

TReadPacket ==
    /\ tpc = "read"
    /\ thist.packets < MaxFrames
    /\ \E outcome \in {"frame", "decodeErr", "readErr"}, fr \in Frames :
          /\ IF outcome = "frame"
               THEN /\ tenv' = [tenv EXCEPT !.frame = fr]
                    /\ tpc' = "write"
               ELSE /\ tenv' = tenv
                    /\ tpc' = IF outcome = "readErr" THEN AfterReadError
                               ELSE AfterDecodeError
          /\ thist' = [thist EXCEPT
                          !.packets = @ + 1,
                          !.lastRead = outcome,
                          !.decoded = IF outcome = "frame" THEN Append(@, fr) ELSE @]
    /\ UNCHANGED <<audioFile, totalAudioBytes, audioBuffer, outsideTrack>>

\* lines 298-307: ReadRTP gives io.EOF or a "closed" error
TReadClosed ==
    /\ tpc = "read"
    /\ tenv.eof
    /\ TReturn(FinalizesOnClosure(audioFile), "closed")
    /\ UNCHANGED outsideTrack

\* lines 338-358: the frame as bytes, given to the player's buffer, then
\* written to the file if there is one; a failed write may have put some of
\* the bytes and is not counted
TWrite ==
    /\ tpc = "write"
    /\ LET bs == SamplesToBytes(tenv.frame)
       IN  /\ audioBuffer' = audioBuffer \o bs
           /\ IF ~audioFile.ok
                THEN UNCHANGED <<audioFile, totalAudioBytes, thist>>
                ELSE \E failed \in BOOLEAN, n \in 0..1 :
                       LET put == IF failed THEN Partial(bs, n) ELSE bs
                           f == Write(FileOf(audioFile), put)
                       IN  /\ audioFile' = [ok |-> TRUE, bytes |-> f.bytes, pos |-> f.pos]
                           /\ totalAudioBytes' =
                                 IF failed THEN totalAudioBytes
                                 ELSE totalAudioBytes + Len(put)
                           /\ thist' = [thist EXCEPT
                                 !.okBytes = IF failed THEN @ ELSE @ + Len(bs),
                                 !.lateWrites = IF thist.nFinal > 0 THEN @ + 1 ELSE @,
                                 !.puts = Append(@, put)]
    /\ tpc' = "select"
    /\ tenv' = [tenv EXCEPT !.frame = <<>>]
    /\ UNCHANGED outsideTrack

TrackNext ==
    \/ TSetup \/ TCreate \/ TStopSignal \/ TTransportClose
    \/ TSelectDone \/ TSelectDefault \/ TReadPacket \/ TReadClosed \/ TWrite

TrackInit ==
    /\ GuardIdle /\ RecIdle /\ SessIdle /\ PipeIdle /\ WavIdle /\ SelIdle /\ MoreIdle
    /\ tpc = "start"
    /\ audioFile = [ok |-> FALSE, bytes |-> <<>>, pos |-> 0]
    /\ totalAudioBytes = 0
    /\ audioBuffer = <<>>
    /\ tenv = [done |-> FALSE, eof |-> FALSE, frame |-> <<>>]
    /\ thist = [packets |-> 0, nFinal |-> 0, finalArg |-> 0,
                lateWrites |-> 0, okBytes |-> 0, via |-> "none",
                lastRead |-> "none", decoded |-> <<>>, puts |-> <<>>,
                hdrLen |-> 0]

TrackSpec == TrackInit /\ [][TrackNext]_vars

(***************************************************************************)
(* loopback.go: the device selection of LoopbackRecorder.Start              *)
(*                                                                          *)
(* A name is a sequence of characters; a device is its name and its        *)
(* MaxInputChannels; the catalog is the sequence of host APIs, each a       *)
(* sequence of devices, in the order portaudio.HostApis() gives them.       *)
(***************************************************************************)
outsideSel == <<guardVars, recVars, sessVars, pipeVars, trackVars, wav, moreVars>>

\* contains(s, substr), lines 11-18
contains(s, substr) ==
    \E i \in 0..(Len(s) - Len(substr)) : SubSeq(s, i + 1, i + Len(substr)) = substr

\* line 74: dev.MaxInputChannels > 0 && contains(dev.Name, deviceName)
PartialMatch(dev, deviceName) ==
    dev.MaxInputChannels > 0 /\ contains(dev.Name, deviceName)

MatchesBySubstring(dev, deviceName) ==
    dev.MaxInputChannels > 0 /\ contains(dev.Name, deviceName)

\* line 60: dev.MaxInputChannels > 0 && dev.Name == deviceName
ExactMatch(dev, deviceName) == dev.MaxInputChannels > 0 /\ dev.Name = deviceName

\* the places <<api, device>> of the catalog
Places(apis) ==
    { p \in (1..Len(apis)) \X (1..MaxDevices) : p[2] <= Len(apis[p[1]]) }

DeviceAt(apis, p) == apis[p[1]][p[2]]

\* p is enumerated before q by the nested loops
Before(p, q) == p[1] < q[1] \/ (p[1] = q[1] /\ p[2] < q[2])

\* nil
NoDevice == <<>>

\* the nested loops with their two breaks: the first place, in enumeration
\* order, whose device is in the set hits; nil if there is none
FirstOf(hits) ==
    IF hits = {} THEN NoDevice
    ELSE CHOOSE p \in hits : \A q \in hits : q = p \/ Before(p, q)

\* lines 57-68
ExactPass(apis, deviceName) ==
    FirstOf({ p \in Places(apis) : ExactMatch(DeviceAt(apis, p), deviceName) })

\* lines 72-83
PartialPass(apis, deviceName) ==
    FirstOf({ p \in Places(apis) : PartialMatch(DeviceAt(apis, p), deviceName) })

\* lines 57-84: the exact pass, then the partial pass if nothing was
\* selected and the name is not empty
SelectDevice(apis, deviceName) ==
    LET selected == ExactPass(apis, deviceName)
    IN  IF selected = NoDevice /\ deviceName # <<>>
          THEN PartialPass(apis, deviceName)
          ELSE selected

DeviceNames == { <<"a">>, <<"b">>, <<"a", "b">>, <<"b", "a">> }

Devices == [Name : DeviceNames, MaxInputChannels : {0, 1}]

\* two host APIs sharing at most MaxDevices devices
Catalogs ==
    { <<SubSeq(ds, 1, k), SubSeq(ds, k + 1, Len(ds))>> :
        <<ds, k>> \in { x \in (UNION { [1..n -> Devices] : n \in 0..MaxDevices })
                               \X (0..MaxDevices) : x[2] <= Len(x[1]) } }

\* LoopbackRecorder.Start(deviceName) up to line 89
SelStart ==
    /\ sel.pc = "ready"
    /\ LET selected == SelectDevice(sel.apis, sel.deviceName)
       IN  sel' = [sel EXCEPT !.pc = "done", !.selected = selected,
                              !.err = (selected = NoDevice)]
    /\ UNCHANGED outsideSel

SelectNext == SelStart

SelectInit ==
    /\ GuardIdle /\ RecIdle /\ SessIdle /\ PipeIdle /\ TrackIdle /\ WavIdle /\ MoreIdle
    /\ \E apis \in Catalogs, deviceName \in DeviceNames \cup {<<>>} :
          sel = [pc |-> "ready", apis |-> apis, deviceName |-> deviceName,
                 selected |-> NoDevice, err |-> FALSE]

SelectSpec == SelectInit /\ [][SelectNext]_vars

(***************************************************************************)
(* output_capture.go: the device selection of OutputCaptureRecorder.Start,  *)
(* next to that of LoopbackRecorder.Start, on a catalog with a host default *)
(***************************************************************************)
BlackHoleMarker == <<"B", "l", "a", "c", "k", "H", "o", "l", "e">>

LoopbackMarker == <<"L", "o", "o", "p", "b", "a", "c", "k">>

\* line 59: contains(dev.Name, "BlackHole") || contains(dev.Name, "Loopback")
HasMarker(dev) ==
    contains(dev.Name, BlackHoleMarker) \/ contains(dev.Name, LoopbackMarker)

\* line 73: dev.MaxInputChannels > 0 &&
\*          (dev.Name == deviceName || contains(dev.Name, deviceName))
LabelMatch(dev, deviceName) ==
    dev.MaxInputChannels > 0 /\ (dev.Name = deviceName \/ contains(dev.Name, deviceName))

NoMarkerPass(apis) == NoDevice

\* lines 57-67
MarkerPass(apis) ==
    FirstOf({ p \in Places(apis) : HasMarker(DeviceAt(apis, p)) })

\* lines 71-81
LabelPass(apis, deviceName) ==
    FirstOf({ p \in Places(apis) : LabelMatch(DeviceAt(apis, p), deviceName) })

\* portaudio.DefaultHostApi() failed
HostError == <<0, 0>>

\* lines 56-102: the device Start goes on with, and the error it returns
\* instead ("none" if it goes on to open the stream)
OutputSelect(apis, deviceName, dflt) ==
    LET marked == MarkerPass(apis)
        named == IF marked = NoDevice /\ deviceName # <<>>
                   THEN LabelPass(apis, deviceName)
                   ELSE marked
        selected == IF named # NoDevice THEN named
                    ELSE IF dflt = HostError THEN NoDevice
                    ELSE dflt
    IN  [selected |-> selected,
         why |-> IF named = NoDevice /\ dflt = HostError THEN "hostapi"
                 ELSE IF selected = NoDevice THEN "notfound"
                 ELSE IF DeviceAt(apis, selected).MaxInputChannels = 0 THEN "nochannels"
                 ELSE "none"]

CaptureNames ==
    { <<"a">>, <<"b", "a">>, BlackHoleMarker, LoopbackMarker \o <<"a">> }

CaptureDevices == [Name : CaptureNames, MaxInputChannels : {0, 1}]

\* two host APIs sharing at most MaxOutDevices devices
CaptureCatalogs ==
    { <<SubSeq(ds, 1, k), SubSeq(ds, k + 1, Len(ds))>> :
        <<ds, k>> \in { x \in (UNION { [1..n -> CaptureDevices] : n \in 0..MaxOutDevices })
                               \X (0..MaxOutDevices) : x[2] <= Len(x[1]) } }

\* what DefaultHostApi() and its DefaultInputDevice can be on a catalog: an
\* input device of it, nil, or an error
Defaults(apis) ==
    { p \in Places(apis) : DeviceAt(apis, p).MaxInputChannels > 0 }
        \cup {NoDevice, HostError}

\* OutputCaptureRecorder.Start(deviceName) up to line 102
OutSelStart ==
    /\ sel.pc = "readyOut"
    /\ LET r == OutputSelect(sel.apis, sel.deviceName, sel.dflt)
       IN  sel' = [sel EXCEPT !.pc = "doneOut", !.selected = r.selected,
                              !.err = (r.why # "none"), !.why = r.why]
    /\ UNCHANGED outsideSel

CaptureSelNext == SelStart \/ OutSelStart

CaptureSelInit ==
    /\ GuardIdle /\ RecIdle /\ SessIdle /\ PipeIdle /\ TrackIdle /\ WavIdle /\ MoreIdle
    /\ \E apis \in CaptureCatalogs, deviceName \in {<<>>, <<"a">>, <<"b">>},
          pc \in {"ready", "readyOut"} :
          \E dflt \in Defaults(apis) :
             sel = [pc |-> pc, apis |-> apis, deviceName |-> deviceName,
                    dflt |-> dflt, selected |-> NoDevice, err |-> FALSE,
                    why |-> "none"]

CaptureSelSpec == CaptureSelInit /\ [][CaptureSelNext]_vars

(***************************************************************************)
(* realtime.go: the two directions, each on its own.  A behaviour runs      *)
(* either the send direction (Start, the capture callback, the send loop,   *)
(* the data channel) or the receive direction (localTrack); the two share   *)
(* no variable but the stop signal and the transport, which the receive     *)
(* direction sees through TStopSignal and TTransportClose.                  *)
(***************************************************************************)
LoopsNext ==
    \/ \E how \in StartOutcomes : StartRecorder(how)
    \/ StartCheckDc
    \/ StartRegister
    \/ \E g \in {"app", "hnd"} : InitSend(g)
    \/ DcOpens
    \/ DcCloses
    \/ SndEval
    \/ SndRecv
    \/ SndSend
    \/ CaptureInto(MaxSendBatches, SendCap)
    \/ TSetup \/ TCreate \/ TStopSignal \/ TTransportClose
    \/ TSelectDone \/ TSelectDefault \/ TReadPacket \/ TReadClosed \/ TWrite

LoopsInit == SessMade(FALSE) \/ TrackInit

LoopsSpec == LoopsInit /\ [][LoopsNext]_vars

(***************************************************************************)
(* loopback.go, output_capture.go: the recorders of RecSpec under any       *)
(* sequence of constructor, Start and Stop calls, with the capture callback *)
(* of every open stream.  A stream delivers buffers while it is open and    *)
(* the library is up; stream.Stop() returns once the running callback has,  *)
(* so a callback is one step between the steps of Start and Stop.           *)
(***************************************************************************)

\* r.Samples <- batch, alone (output_capture.go 119) or as a case of a select
\* with default (loopback.go 108-114): on a closed channel the send panics
SendPanics(closed) == closed

\* loopback.go 102-115, output_capture.go 115-120: the callback of stream k
\* sends on the Samples channel of the recorder that opened it
CaptureCallback(k) ==
    LET i == streams[k].owner
    IN  /\ k \in OpenStreams
        /\ i # 0
        /\ paUp
        /\ rhist' = [rhist EXCEPT !.delivered = TRUE,
                                  !.sendOnClosed = @ \/ SendPanics(rec[i].isClosed)]
        /\ UNCHANGED <<guardVars, rec, streams, bh>>
        /\ UNCHANGED outsideRec

RestartNext ==
    \/ RecNext
    \/ \E k \in 1..MaxStreams : CaptureCallback(k)

RestartSpec == RecInit /\ [][RestartNext]_vars

(***************************************************************************)
(* loopback.go 102-106, output_capture.go 109-120: the batch a capture      *)
(* callback makes of a delivered buffer.  A slice is its backing array (mem,*)
(* a number given at allocation) and its elements (data); the driver's      *)
(* buffer is array DriverMem.  Samples are non-zero numbers, so that they   *)
(* differ from the zeros of a fresh allocation.                             *)
(***************************************************************************)
outsideCbk == <<guardVars, recVars, sessVars, pipeVars, trackVars, wav, sel, frm, ab>>

DriverMem == 0

SampleValues == {1, 2}

\* make([]float32, n): n zeros
Make(n) == [k \in 1..n |-> 0]

\* the builtin copy(dst, src): min(len(dst), len(src)) elements are copied,
\* the rest of dst stays
Copy(dst, src) == [k \in 1..Len(dst) |-> IF k <= Len(src) THEN src[k] ELSE dst[k]]

\* loopback.go 104-105: sampleCopy := make([]float32, len(input));
\* copy(sampleCopy, input)
LoopbackBatch(input) == Copy(Make(Len(input)), input)

\* output_capture.go 117: copy(in, input)
InAfterCopy(in, input) == Copy(in, input)

\* output_capture.go 119: append([]float32(nil), in...)
OutputBatch(in) == in

InputBuffers ==
    UNION {[1..n -> SampleValues] : n \in 0..MaxInputLen}

\* the stream calls the callback with a buffer; the callback makes a batch
\* in a new array and sends it
Deliver(input) ==
    /\ cbk.pc = "run"
    /\ Len(cbk.inputs) < MaxDeliveries
    /\ LET in == IF cbk.kind = "output" THEN InAfterCopy(cbk.in, input) ELSE cbk.in
           data == IF cbk.kind = "output" THEN OutputBatch(in) ELSE LoopbackBatch(input)
       IN  cbk' = [cbk EXCEPT !.in = in,
                              !.inputs = Append(@, input),
                              !.batches = Append(@, [mem |-> cbk.next, data |-> data]),
                              !.next = @ + 1]
    /\ UNCHANGED outsideCbk

CallbackNext == \E input \in InputBuffers : Deliver(input)

\* Start has opened the stream: output_capture.go 110-113 made in, array 1
CallbackInit ==
    /\ GuardIdle /\ RecIdle /\ SessIdle /\ PipeIdle /\ TrackIdle /\ WavIdle /\ SelIdle
    /\ FrmIdle /\ AbIdle
    /\ \E kind \in {"loopback", "output"} :
          cbk = [pc |-> "run", kind |-> kind,
                 in |-> IF kind = "output" THEN Make(BufferSize) ELSE <<>>,
                 inputs |-> <<>>, batches |-> <<>>, next |-> 2]

CallbackSpec == CallbackInit /\ [][CallbackNext]_vars

(***************************************************************************)
(* realtime.go 325-336 and utils.go: the non-silence flag of a decoded      *)
(* frame.  Samples are int16.                                               *)
(***************************************************************************)
outsideFrm == <<guardVars, recVars, sessVars, pipeVars, trackVars, wav, sel, cbk, ab>>

MinInt16 == -32768

MaxInt16 == 32767

\* an int16 result: the low 16 bits, as a signed number
Int16(x) == ((x - MinInt16) % 65536) + MinInt16

\* utils.go 4-9: func abs(x int16) int16, with -x computed in int16
abs(x) == IF x < 0 THEN Int16(-x) ELSE x

\* realtime.go 329-336: hasSound, over the first n samples of buffer
HasSound(buffer, n) == \E i \in 1..n : abs(buffer[i]) > 0

Int16Samples == {MinInt16, -1, 0, 1, MaxInt16}

DecodedFrames == UNION {[1..n -> Int16Samples] : n \in 0..FrameLen}

\* realtime.go 318-336: decoder.Decode gave n samples in pcm;
\* copy(buffer, pcm[:n]); the flag is computed
DecodeFrame(pcm) ==
    /\ frm.pc = "run"
    /\ frm.frames < MaxDecoded
    /\ LET buffer == Copy(frm.buffer, pcm)
       IN  frm' = [frm EXCEPT !.buffer = buffer,
                              !.pcm = pcm,
                              !.n = Len(pcm),
                              !.hasSound = HasSound(buffer, Len(pcm)),
                              !.frames = @ + 1]
    /\ UNCHANGED outsideFrm

SoundNext == \E pcm \in DecodedFrames : DecodeFrame(pcm)

\* realtime.go 251: buffer := make([]int16, frameSize)
SoundInit ==
    /\ GuardIdle /\ RecIdle /\ SessIdle /\ PipeIdle /\ TrackIdle /\ WavIdle /\ SelIdle
    /\ CbkIdle /\ AbIdle
    /\ frm = [pc |-> "run", buffer |-> Make(FrameLen), pcm |-> <<>>, n |-> 0,
              hasSound |-> FALSE, frames |-> 0]

SoundSpec == SoundInit /\ [][SoundNext]_vars

(***************************************************************************)
(* output_capture.go 159-193: AudioBuffer.  Write and Read run under ab.mu, *)
(* so each critical section is one step: Write as a whole, Read from Lock   *)
(* to its return or to cond.Wait (which unlocks), and Read again from its   *)
(* wake-up, when Wait has locked ab.mu again.  The buffer is its length.    *)
(* cond.Signal wakes one of the goroutines in Wait, if there is one; Wait   *)
(* returns only when woken.                                                 *)
(***************************************************************************)
outsideAb == <<guardVars, recVars, sessVars, pipeVars, trackVars, wav, sel, cbk, frm>>

Readers == 1..NReaders

Waiting == {r \in Readers : ab.rd[r] = "waiting"}

Min(a, b) == IF a < b THEN a ELSE b

\* 185-192, with ab.mu held: wait while the buffer is empty, else
\* n = copy(p, ab.buffer); ab.buffer = ab.buffer[n:]; return
ReadBody(r, plen) ==
    IF ab.buffer = 0
    THEN ab' = [ab EXCEPT !.rd[r] = "waiting", !.p[r] = plen]
    ELSE ab' = [ab EXCEPT !.rd[r] = "idle", !.p[r] = 0,
                          !.buffer = @ - Min(plen, ab.buffer),
                          !.reads[r] = @ + 1]

\* 180-193: a goroutine calls Read(p) with len(p) = plen
Read(r, plen) ==
    /\ ab.pc = "run"
    /\ ab.rd[r] = "idle"
    /\ ab.reads[r] < MaxReads
    /\ ReadBody(r, plen)
    /\ UNCHANGED outsideAb

\* 185-187: cond.Wait returns in a goroutine that was woken; the loop tests
\* the buffer again
ReadWake(r) ==
    /\ ab.pc = "run"
    /\ ab.rd[r] = "woken"
    /\ ReadBody(r, ab.p[r])
    /\ UNCHANGED outsideAb

\* 176: ab.cond.Signal()
Signal(rd, r) == [rd EXCEPT ![r] = "woken"]

\* 173-178: append the data, signal, unlock
AbWrite(k) ==
    /\ ab.pc = "run"
    /\ ab.writes < MaxWrites
    /\ \/ /\ Waiting = {}
          /\ ab' = [ab EXCEPT !.buffer = @ + k, !.writes = @ + 1]
       \/ \E r \in Waiting :
             ab' = [ab EXCEPT !.buffer = @ + k, !.writes = @ + 1,
                              !.rd = Signal(@, r)]
    /\ UNCHANGED outsideAb

BufferNext ==
    \/ \E r \in Readers, plen \in 1..MaxWriteLen : Read(r, plen)
    \/ \E r \in Readers : ReadWake(r)
    \/ \E k \in 1..MaxWriteLen : AbWrite(k)

\* 165-171: NewAudioBuffer
BufferInit ==
    /\ GuardIdle /\ RecIdle /\ SessIdle /\ PipeIdle /\ TrackIdle /\ WavIdle /\ SelIdle
    /\ CbkIdle /\ FrmIdle
    /\ ab = [pc |-> "run", buffer |-> 0,
             rd |-> [r \in Readers |-> "idle"],
             p |-> [r \in Readers |-> 0],
             reads |-> [r \in Readers |-> 0],
             writes |-> 0]

BufferSpec == BufferInit /\ [][BufferNext]_vars

\* a reader that was woken runs again
BufferFair == \A r \in Readers : WF_vars(ReadWake(r))

BufferLive == BufferInit /\ [][BufferNext]_vars /\ BufferFair

(***************************************************************************)
(* Claims                                                                   *)
(***************************************************************************)

\* C1 (RecSpec): over any sequence of Stop calls on one recorder,
\* SafePortAudioTerminate is invoked at most once for the one
\* SafePortAudioInit of the recorder's constructor.
C1_StopReleasesGuardAtMostOnce ==
    \A i \in RecIds : rec[i].terms <= 1

\* C2 (RecSpec): whenever a component holds an open stream, the driver is
\* physically initialized.
C2_OpenStreamImpliesDriverUp ==
    /\ \A i \in RecIds : rec[i].stream \in OpenStreams => paUp
    /\ bh.stream \in OpenStreams => paUp

GuardAllIdle == \A t \in Callers : gpc[t] = "idle"

\* the run so far is N successful SafePortAudioInit calls followed by N
\* SafePortAudioTerminate calls, all returned
InitsThenTerminates ==
    /\ GuardAllIdle
    /\ ghist.ordered
    /\ ghist.initFail = 0
    /\ ghist.initOk >= 1
    /\ ghist.termDone = ghist.initOk

\* C3 (GuardSpec): after N >= 1 successful SafePortAudioInit calls followed
\* by N SafePortAudioTerminate calls, in any interleaving of the concurrent
\* callers, portaudio.Initialize ran exactly once, portaudio.Terminate ran
\* exactly once, and paInitCount is 0.
C3_OnePhysicalInitOneTeardown ==
    InitsThenTerminates =>
        /\ ghist.nInitialize = 1
        /\ ghist.nTerminate = 1
        /\ paInitCount = 0

\* two callers shared the one physical initialization
C3_Witness ==
    /\ InitsThenTerminates
    /\ ghist.initOk >= 2
    /\ \A t \in Callers : gloc[t].calls >= 2

\* C4 (GuardSpec): a SafePortAudioTerminate call performs the physical
\* teardown only if it found the counter at 1; a call that found it at 0
\* performs none.
C4_TeardownOnlyFromOne ==
    \A t \in Callers :
        (gpc[t] = "t_unlock" /\ gloc[t].tore) => gloc[t].pre = 1

\* C5 (GuardSpec): in every state in which no caller holds paInitMutex,
\* paInitCount >= 0.
C5_CountNeverNegative ==
    paInitMutex = NoCaller => paInitCount >= 0

\* more SafePortAudioTerminate calls have returned than SafePortAudioInit
\* calls, and the mutex is free
C5_Witness ==
    /\ paInitMutex = NoCaller
    /\ ghist.termDone > ghist.initOk
    /\ ghist.initOk >= 1

\* C6 (RecSpec): a constructor whose SafePortAudioInit fails leaves
\* paInitCount as it was, at a value at which the next SafePortAudioInit
\* attempts portaudio.Initialize again, and creates no recorder (NewSession:
\* no session).
C6_FailedInitChangesNothing ==
    [][rhist'.ctorFails > rhist.ctorFails =>
          /\ paInitCount' = paInitCount
          /\ NeedsInitialize(paInitCount')
          /\ rec' = rec]_vars

\* a constructor failed, and a later one ran portaudio.Initialize again and
\* returned a recorder
C6_Witness ==
    /\ rhist.ctorFails >= 1
    /\ ghist.nInitialize >= 2
    /\ \E i \in RecIds : Made(i)

StopReturned ==
    \/ at["app"] = "idle" /\ shist.appStops >= 1
    \/ at["app2"] = "idle"

\* C7 (StopSpec): over any number of Session.Stop calls on one session, one
\* after another or at once from two goroutines, the stop channel is closed
\* at most once, no close panics, and once a call has returned the signal
\* is closed.
C7_StopChannelClosedOnce ==
    /\ shist.stopCloses <= 1
    /\ ~panicked
    /\ StopReturned => stopClosed

LoopsReturned == at["snd"] = "returned" /\ at["rcv"] = "returned"

\* C8 (SessLive): after Session.Stop is called while the send loop and the
\* receive loop are running, both loops eventually return.
C8_LoopsReturnAfterStop ==
    shist.stopAtRun ~> LoopsReturned

\* Stop was called with both loops running, and both have returned
C8_Witness ==
    /\ shist.stopAtRun
    /\ LoopsReturned

\* C9 (SessSpec): once Session.Stop has closed the stop signal, a task that
\* reads it later sees it signaled: no send-loop select and no stop-watcher
\* waits on a stop signal that will never fire.
C9_LateReaderSeesSignal ==
    stopClosed =>
        /\ at["snd"] = "sel_wait" => loc.sref # "nil"
        /\ at["wat"] = "w_wait" => loc.wref # "nil"

\* C10 (SessSpec): no input_audio_buffer.append is sent on the data channel
\* before session.update has been sent.
C10_UpdateBeforeAppend ==
    \A k \in 1..Len(sent) :
        sent[k].type = "input_audio_buffer.append" =>
            \E j \in 1..(k - 1) : sent[j].type = "session.update"

\* C19 (SessSpec): no batch that the send loop dequeues after the stop
\* signal was closed is transmitted as an input_audio_buffer.append message.
C19_NoAppendDequeuedAfterStop ==
    ~shist.lateSent

CallbackCanReturn == ENABLED (LoopbackCallback \/ OutputCallback)

\* C11 (PipeSpec): the capture callback of either recorder never blocks:
\* whatever the state of the Samples pipe, a callback that is running can
\* return.
C11_CallbackNeverBlocks ==
    (PipeAlive /\ pcb = "offer") => CallbackCanReturn

LastN(q, n) == SubSeq(q, IF Len(q) > n THEN Len(q) - n + 1 ELSE 1, Len(q))

\* C12 as stated (PipeSpec): when more than the capacity was offered to the
\* pipe of a LoopbackRecorder since its consumer last received, the pipe
\* holds the most recent `capacity` batches offered.
C12_PipeHoldsNewest ==
    (pk = "loopback" /\ Len(phist.pending) > PipeCap) =>
        pq = LastN(phist.pending, PipeCap)

\* C12 as amended (PipeSpec): the pipe of a LoopbackRecorder holds the
\* earliest `capacity` batches offered since its consumer last received;
\* the batches offered while it was full are the ones dropped.
C12_PipeHoldsOldest ==
    pk = "loopback" => pq = FirstN(phist.pending, PipeCap)

\* the consumer received, then paused while more than the capacity was offered
C12_Witness ==
    /\ pk = "loopback"
    /\ phist.received # <<>>
    /\ Len(phist.pending) > PipeCap

\* C13 (PipeSpec): there is no state in which Stop, holding r.mu, waits for
\* the stream to stop while the capture callback waits for room in a pipe
\* that nobody drains.
C13_StopAndCallbackNeverStuck ==
    ~ \E t \in Stoppers1 :
          /\ pat[t] = "stream"
          /\ pstream = "running"
          /\ pcb = "offer"
          /\ ~CallbackCanReturn
          /\ pcons # "ranging"

\* C14 (PipeSpec): over any Stop calls on one recorder, one after another or
\* at once, started or not, r.Samples is closed exactly once and nothing
\* panics.
C14_SamplesClosedExactlyOnce ==
    /\ phist.closes <= 1
    /\ ~phist.panicked
    /\ (\E t \in Stoppers1 : pat[t] \in {"term", "done"}) =>
           (phist.closes = 1 /\ chClosed)

\* every caller of Stop has returned, after a Start
C14_Witness ==
    /\ \A t \in Stoppers1 : pat[t] = "done"
    /\ phist.started
    /\ phist.closes = 1

IsPrefix(a, b) == Len(a) <= Len(b) /\ a = SubSeq(b, 1, Len(a))

\* C15 (PipeLive): a consumer ranging over Samples receives the queued
\* batches in order, ends only once the channel is closed and it has
\* received every batch that was queued, and does end after a Stop.
C15_ConsumerDrainsThenEnds ==
    /\ [](IsPrefix(phist.received, phist.accepted))
    /\ [](pcons = "done" => (chClosed /\ phist.received = phist.accepted))
    /\ ((pcons # "absent" /\ \E t \in Stoppers1 : pat[t] = "done") ~> pcons = "done")

\* the consumer ended after receiving at least two batches
C15_Witness ==
    /\ pcons = "done"
    /\ Len(phist.received) >= 2
    /\ phist.received = phist.accepted

\* the four bytes of the file from offset off on, <<>> if the file is shorter
Field(f, off) ==
    IF Len(f.bytes) >= off + 4 THEN SubSeq(f.bytes, off + 1, off + 4) ELSE <<>>

\* the four bytes b hold the int64 x as a little-endian unsigned 32-bit integer
HoldsLE32(b, x) == Len(b) = 4 /\ Zeros(4) \o Reverse(b) = x

\* x < 2^32
Fits32(x) == SubSeq(x, 1, Len(x) - 4) = Zeros(Len(x) - 4)

PatchedOffsets == (4..7) \cup (40..43)

\* C18: updateWavHeader changes only bytes 4..7 and 40..43: every other byte
\* the file had, in the header and in the data region from offset 44 on, is
\* the same before and after, and a file of 44 bytes or more keeps its length
C18_FinalizeChangesOnlySizeFields ==
    wav.pc = "done" =>
        /\ Len(wav.file.bytes) >= Len(wav.before.bytes)
        /\ \A i \in 1..Len(wav.before.bytes) :
              (i - 1) \notin PatchedOffsets => wav.file.bytes[i] = wav.before.bytes[i]
        /\ Len(wav.before.bytes) >= 44 => Len(wav.file.bytes) = Len(wav.before.bytes)

\* a complete header followed by audio, patched in both fields
C18_Witness ==
    /\ wav.pc = "done" /\ ~wav.err /\ ~wav.hdrErr
    /\ Len(wav.before.bytes) = 44 + MaxData
    /\ Field(wav.file, 40) # Field(wav.before, 40)
    /\ Field(wav.file, 4) # Field(wav.before, 4)

\* C16: when localTrack's loop has returned, through the stop signal or
\* through transport closure, and the audio file was created,
\* updateWavHeader was called exactly once, with the total of the
\* successfully written bytes, and no frame was written after that call
C16_FinalizedOnceOnReturn ==
    (tpc = "returned" /\ audioFile.ok) =>
        /\ thist.nFinal = 1
        /\ thist.finalArg = thist.okBytes
        /\ thist.lateWrites = 0

\* the loop returned on transport closure after a counted and a failed write
C16_Witness ==
    /\ tpc = "returned" /\ audioFile.ok
    /\ thist.via = "closed"
    /\ thist.packets = MaxFrames
    /\ thist.okBytes > 0
    /\ Len(audioFile.bytes) > 44 + thist.okBytes

\* some input-capable device of the catalog is named exactly the label
HasExact(apis, label) ==
    \E p \in Places(apis) :
        DeviceAt(apis, p).MaxInputChannels > 0 /\ DeviceAt(apis, p).Name = label

\* some input-capable device has a longer name that contains the label
HasProperPartial(apis, label) ==
    \E p \in Places(apis) :
        /\ DeviceAt(apis, p).MaxInputChannels > 0
        /\ DeviceAt(apis, p).Name # label
        /\ contains(DeviceAt(apis, p).Name, label)

\* C20: LoopbackRecorder.Start on a catalog with an input-capable device
\* named exactly the label and an input-capable device whose name contains
\* the label as a proper substring selects the exactly named device,
\* whatever the enumeration order of the two
C20_ExactMatchPreferred ==
    (/\ sel.pc = "done"
     /\ HasExact(sel.apis, sel.deviceName)
     /\ HasProperPartial(sel.apis, sel.deviceName)) =>
        /\ sel.selected # NoDevice
        /\ DeviceAt(sel.apis, sel.selected).Name = sel.deviceName
        /\ DeviceAt(sel.apis, sel.selected).MaxInputChannels > 0

\* the device containing the label is enumerated first, in an earlier host
\* API, and the exactly named one is selected
C20_Witness ==
    /\ sel.pc = "done"
    /\ sel.deviceName = <<"a">>
    /\ Len(sel.apis[1]) = 1 /\ Len(sel.apis[2]) = 2
    /\ sel.apis[1][1] = [Name |-> <<"b", "a">>, MaxInputChannels |-> 1]
    /\ sel.apis[2][1] = [Name |-> <<"a">>, MaxInputChannels |-> 0]
    /\ sel.apis[2][2] = [Name |-> <<"a">>, MaxInputChannels |-> 1]
    /\ sel.selected = <<2, 2>>

\* the selected device, when there is one
Selected == DeviceAt(sel.apis, sel.selected)

\* C21: OutputCaptureRecorder.Start on a catalog with a loopback-marker
\* device and a device named exactly the label selects a loopback-marker
\* device, whatever the label and the enumeration order, and goes on with it
\* when it has input channels
C21_MarkerDevicePreferred ==
    (/\ sel.pc = "doneOut"
     /\ \E p \in Places(sel.apis) : HasMarker(DeviceAt(sel.apis, p))
     /\ \E p \in Places(sel.apis) : DeviceAt(sel.apis, p).Name = sel.deviceName) =>
        /\ sel.selected # NoDevice
        /\ HasMarker(Selected)
        /\ Selected.MaxInputChannels > 0 => ~sel.err

\* an input-capable device named exactly the label is enumerated first and
\* the marker device after it is selected
C21_Witness ==
    /\ sel.pc = "doneOut"
    /\ sel.deviceName = <<"a">>
    /\ Len(sel.apis[1]) = 1 /\ Len(sel.apis[2]) = 1
    /\ sel.apis[1][1] = [Name |-> <<"a">>, MaxInputChannels |-> 1]
    /\ sel.apis[2][1] = [Name |-> BlackHoleMarker, MaxInputChannels |-> 1]
    /\ sel.selected = <<2, 1>>
    /\ ~sel.err

\* no rule before the default applies to the empty label: no device is named
\* "" for LoopbackRecorder, no device carries a marker for
\* OutputCaptureRecorder
NoEarlierRule ==
    /\ sel.pc = "done" => ExactPass(sel.apis, sel.deviceName) = NoDevice
    /\ sel.pc = "doneOut" => MarkerPass(sel.apis) = NoDevice

\* C22: on each recorder Start("") selects the host's default input device,
\* without error, when no earlier selection rule matches
C22_EmptyLabelUsesDefault ==
    (/\ sel.pc \in {"done", "doneOut"}
     /\ sel.deviceName = <<>>
     /\ sel.dflt \notin {NoDevice, HostError}
     /\ NoEarlierRule) =>
        /\ sel.selected = sel.dflt
        /\ ~sel.err

\* some device with input channels carries a marker, matches the requested
\* label, or is the host default
HasEligible ==
    \E p \in Places(sel.apis) :
        /\ DeviceAt(sel.apis, p).MaxInputChannels > 0
        /\ \/ HasMarker(DeviceAt(sel.apis, p))
           \/ (sel.deviceName # <<>> /\ contains(DeviceAt(sel.apis, p).Name, sel.deviceName))
           \/ p = sel.dflt

\* C23: OutputCaptureRecorder.Start returns no error, and goes on with a
\* device that has input channels, when the catalog has a device with input
\* channels that carries a marker, matches the label or is the host default
C23_FailsOnlyWithoutEligibleDevice ==
    (sel.pc = "doneOut" /\ HasEligible) =>
        /\ ~sel.err
        /\ sel.selected # NoDevice
        /\ Selected.MaxInputChannels > 0

\* the positions in sent of the messages of a type
SentOf(type) == { i \in 1..Len(sent) : sent[i].type = type }

AppendsSent == SentOf("input_audio_buffer.append")

C25_FailedStartDoesNotStream ==
    shist.startErr =>
        /\ at["app"] \notin {"start_dc", "start_reg", "init_send"}
        /\ at["snd"] = "none"
        /\ at["hnd"] = "none"
        /\ onOpen = "log"
        /\ SentOf("session.update") = {}
        /\ AppendsSent = {}

\* the recorder failed to start and the data channel opened afterwards
C25_Witness ==
    /\ shist.startErr
    /\ at["app"] = "idle"
    /\ shist.appStops = 0
    /\ dcState = "open"
    /\ sent = <<>>

CancelsSent == SentOf("response.cancel")

\* C26: across the Stop calls of one session response.cancel is sent at most
\* once, on the open data channel and after the stop signal was closed; the
\* data channel and the peer connection are closed after it
C26_CancelAtMostOnce ==
    /\ [](/\ Cardinality(CancelsSent) <= 1
          /\ CancelsSent # {} => stopClosed
          /\ (CancelsSent # {} /\ at["app"] = "idle") =>
                (dcState = "closed" /\ pcClosed))
    /\ [][(Len(sent') > Len(sent) /\ sent'[Len(sent')] = MsgCancel) =>
             (dcState = "open" /\ ~pcClosed /\ stopClosed)]_vars

\* two Stop calls have returned and one response.cancel was sent
C26_Witness ==
    /\ shist.appStops = 2
    /\ at["app"] = "idle"
    /\ Cardinality(CancelsSent) = 1

\* C28: when Start finds the data channel not open it proceeds: no error,
\* capture and the send loop run, a batch dequeued while the channel is not
\* open is dropped, and once the channel is open the handler that sends
\* session.update is run
C28_StartProceedsWithoutChannel ==
    /\ [](shist.lateStart =>
            /\ ~shist.startErr
            /\ at["snd"] # "none"
            /\ shist.appStops = 0 => CaptureRunning
            /\ (dcState = "open" /\ at["app"] \notin {"start_dc", "start_reg"}) =>
                  at["hnd"] \in {"init_send", "done"}
            /\ (dcState = "open" /\ at["hnd"] = "done") =>
                  SentOf("session.update") # {})
    /\ [][(Len(Samples') < Len(Samples) /\ dcState # "open") =>
             (sent' = sent /\ at'["snd"] = "sel_eval")]_vars

\* Start found the channel not open, a batch was dropped, the channel opened
\* and session.update went out
C28_Witness ==
    /\ shist.lateStart
    /\ shist.skipped # {}
    /\ at["hnd"] = "done"
    /\ dcState = "open"
    /\ sent = <<MsgUpdate>>

\* localTrack is in its receive loop
InLoop == tpc \in {"select", "read", "write"}

\* C30: the receive loop returns only when it observes the stop signal or
\* when ReadRTP fails with end-of-stream or a "closed" error; after any
\* other ReadRTP error the loop is at its select again with nothing written
\* to the player's buffer or to the file
C30_LoopReturnsOnlyOnStopOrClosure ==
    /\ [][(InLoop /\ tpc' = "returned") =>
             \/ (tpc = "select" /\ tenv.done /\ thist'.via = "stop")
             \/ (tpc = "read" /\ tenv.eof /\ thist'.via = "closed")]_vars
    /\ [][(thist'.packets > thist.packets /\ thist'.lastRead = "readErr") =>
             /\ tpc' = "select"
             /\ audioBuffer' = audioBuffer
             /\ audioFile' = audioFile
             /\ totalAudioBytes' = totalAudioBytes]_vars

\* a frame was played and saved, the next ReadRTP failed in passing, and the
\* loop went on until the stop signal ended it
C30_Witness ==
    /\ tpc = "returned"
    /\ thist.via = "stop"
    /\ thist.lastRead = "readErr"
    /\ audioBuffer # <<>>
    /\ thist.okBytes > 0

\* C27: a best-effort failure leaves its loop running: after a failure to
\* create the audio file the receive loop is at its select; a packet whose
\* decoding failed reaches neither the player's buffer nor the file, and the
\* loop is at its select; a decoded frame reaches the player's buffer whether
\* or not its file write works, and the loop is at its select; and the send
\* loop is at its select after SendText, failed or not
C27_BestEffortFailuresKeepLoops ==
    /\ [][(tpc = "create" /\ tpc' # "create") => tpc' = "select"]_vars
    /\ [][(thist'.packets > thist.packets /\ thist'.lastRead = "decodeErr") =>
             /\ tpc' = "select"
             /\ audioBuffer' = audioBuffer
             /\ audioFile' = audioFile]_vars
    /\ [][(tpc = "write" /\ tpc' # "write") =>
             /\ tpc' = "select"
             /\ audioBuffer' = audioBuffer \o SamplesToBytes(tenv.frame)]_vars
    /\ [][(at["snd"] = "snd_send" /\ at'["snd"] # "snd_send") =>
             at'["snd"] = "sel_eval"]_vars

\* the write of the first frame failed part-way; that frame and the next one
\* were both given to the player
C27_Witness ==
    /\ audioFile.ok
    /\ Len(thist.decoded) = 2
    /\ Len(thist.puts) = 2
    /\ Len(thist.puts[1]) < Len(SamplesToBytes(thist.decoded[1]))
    /\ audioBuffer = SamplesToBytes(thist.decoded[1]) \o SamplesToBytes(thist.decoded[2])

\* the bytes of the first n of the frames, in a row
RECURSIVE BytesOf(_, _)
BytesOf(frames, n) ==
    IF n = 0 THEN <<>>
    ELSE BytesOf(frames, n - 1) \o SamplesToBytes(frames[n])

\* the elements of a sequence of sequences, in a row
RECURSIVE Flatten(_)
Flatten(ss) == IF ss = <<>> THEN <<>> ELSE Head(ss) \o Flatten(Tail(ss))

\* the batches carried by the append messages, in the order they were sent
RECURSIVE BatchesSent(_)
BatchesSent(msgs) ==
    IF msgs = <<>> THEN <<>>
    ELSE IF Head(msgs).type = "input_audio_buffer.append"
         THEN <<Head(msgs).batch>> \o BatchesSent(Tail(msgs))
         ELSE BatchesSent(Tail(msgs))

\* a is b with some elements left out, b without repetition
RECURSIVE IsSubsequence(_, _)
IsSubsequence(a, b) ==
    IF a = <<>> THEN TRUE
    ELSE IF b = <<>> THEN FALSE
    ELSE IF Head(a) = Head(b) THEN IsSubsequence(Tail(a), Tail(b))
    ELSE IsSubsequence(a, Tail(b))

\* the decoded frames that have gone through lines 338-355
Processed == IF tpc = "write" THEN Len(thist.decoded) - 1 ELSE Len(thist.decoded)

\* C29: the batches of the append messages are, in the order sent, a
\* subsequence of the batches the capture callback enqueued, none sent
\* twice; the player's buffer holds the decoded frames in the order their
\* packets were read, and so does, until it is finalized, the data of the file
C29_ArrivalOrderKept ==
    /\ IsSubsequence(BatchesSent(sent), shist.enqueued)
    /\ \A i, j \in AppendsSent : sent[i].batch = sent[j].batch => i = j
    /\ tpc # "idle" => audioBuffer = BytesOf(thist.decoded, Processed)
    /\ (audioFile.ok /\ thist.nFinal = 0) =>
          /\ Len(thist.puts) = Processed
          /\ \A k \in 1..Len(thist.puts) :
                IsPrefix(thist.puts[k], SamplesToBytes(thist.decoded[k]))
          /\ SubSeq(audioFile.bytes, thist.hdrLen + 1, Len(audioFile.bytes))
                = Flatten(thist.puts)

\* every batch delivered was enqueued and two of them have been sent
C29_Witness ==
    /\ shist.captured = MaxSendBatches
    /\ Len(BatchesSent(sent)) = 2
    /\ Len(shist.enqueued) = MaxSendBatches


\* C32 (RecSpec): once a Stop of a recorder has returned and no stream has
\* been opened on it since, every stream that recorder opened has been closed
\* exactly once: none is left open by a second Start, none is closed again
\* after a failed stream.Start().
StoppedLast(i) == rec[i].terms > 0 /\ rec[i].stream = 0

StreamsOf(i) == {k \in 1..Len(streams) : streams[k].owner = i}

C32_EveryStreamClosedOnce ==
    \A i \in RecIds :
        StoppedLast(i) => \A k \in StreamsOf(i) : streams[k].closes = 1


\* C31 (RestartSpec): in any sequence of Start and Stop calls on a recorder,
\* no capture callback sends on the Samples channel after it was closed.
C31_NoSendAfterSamplesClosed == ~rhist.sendOnClosed


\* C34 (SessSpec): under every interleaving of Session.Stop with the send
\* loop, no input_audio_buffer.append is sent on the data channel after
\* response.cancel.
C34_NoAppendAfterCancel ==
    \A k \in 1..Len(sent) :
        sent[k].type = "response.cancel" =>
            \A j \in (k + 1)..Len(sent) : sent[j].type # "input_audio_buffer.append"

Terminated(g) == at[g] \in {"none", "returned", "done"}

\* C35 (SessLive): once Session.Stop has returned and the transport is
\* closed, the send loop, the receive loop and its stop-watcher eventually
\* terminate, also when the track handler started after Stop was called.
C35_GoroutinesTerminateAfterStop ==
    (StopReturned /\ pcClosed /\ ~panicked)
        ~> (\A g \in {"snd", "rcv", "wat"} : Terminated(g))


\* C33 (CallbackSpec): every batch a recorder enqueues holds exactly the
\* samples of the buffer delivered to that callback invocation, in an array
\* that is neither the driver's nor another batch's, for either recorder and
\* for delivered buffers of any length.
C33_BatchIsCopyOfDeliveredBuffer ==
    cbk.pc = "run" =>
        \A k \in 1..Len(cbk.batches) :
            /\ cbk.batches[k].data = cbk.inputs[k]
            /\ cbk.batches[k].mem # DriverMem
            /\ \A j \in 1..Len(cbk.batches) :
                   j # k => cbk.batches[j].mem # cbk.batches[k].mem


\* C36 (SoundSpec): the per-frame non-silence flag is true exactly when at
\* least one of the n decoded samples of the frame is non-zero, for every
\* int16 sample value, -32768 included.
C36_FlagIffSomeSampleNonZero ==
    (frm.pc = "run" /\ frm.frames > 0) =>
        (frm.hasSound <=> \E i \in 1..frm.n : frm.pcm[i] # 0)


WakeUpPending == \E r \in Readers : ab.rd[r] = "woken"

\* C37 (BufferSpec): no Read stays blocked while the buffer holds unread
\* bytes, without a further Write: whenever the buffer is non-empty and a
\* Read is in cond.Wait, a wake-up is on its way to a blocked Read.  (A Read
\* in Wait with no wake-up pending returns only after a further Write.)
C37_NoReadLeftWaitingOnData ==
    (ab.pc = "run" /\ ab.buffer > 0 /\ Waiting # {}) => WakeUpPending

Blocked(r) == ab.rd[r] \in {"waiting", "woken"}

\* the same as a property of BufferLive: a Read blocked while the buffer
\* holds bytes eventually returns or sees the buffer emptied
BlockedReadReturns ==
    \A r \in Readers :
        (ab.pc = "run" /\ ab.buffer > 0 /\ Blocked(r))
            ~> (ab.buffer = 0 \/ ~Blocked(r))

====
